---------------------------- MODULE Spec2Model ----------------------------
(***************************************************************************)
(* BazarBinClient: the client-side CSV import pipeline.                    *)
(*                                                                         *)
(*   src/src/lib/imports.test.ts  createImportSchema, buildImportFormData  *)
(*                                (the module's code follows its tests)    *)
(*   src/src/lib/csv.ts           parseCsv, detectDelimiter,               *)
(*                                trimTrailingEmptyRows                    *)
(*   src/src/lib/postgres.ts      inferPostgresType, sanitizeIdentifier    *)
(*   src/src/pages/CreateDatasetPage.tsx  the column configuration:        *)
(*                                buildColumns, the effect that calls it,  *)
(*                                the file, header and column handlers     *)
(*                                                                         *)
(* A JavaScript string is a sequence of one-character strings; the fixed   *)
(* words of the program (object keys, data type names, JSON literals) are  *)
(* single symbols of such a sequence.                                      *)
(***************************************************************************)
EXTENDS Integers, Sequences, FiniteSets, TLC

VARIABLES
    \* ---- import schema builder (imports.ts) ----
    options,        \* the argument of createImportSchema
    outcome,        \* what createImportSchema did: returned a schema or threw
    upload,         \* the File handed to buildImportFormData
    formData,       \* the FormData buildImportFormData returned
    \* ---- CSV tokenizer (csv.ts) ----
    content,        \* parseCsv's argument
    maxRows,        \* options.maxRows ?? 500
    normalized,     \* content with its line endings normalized
    delimiter,      \* detectDelimiter(normalized)
    scan,           \* the scan loop's locals: index (1-based here), currentField,
                    \* currentRow, insideQuotes, rows, and whether it left by break
    pc,             \* where parseCsv is: "start", "scan", "done"
    parsed,         \* parseCsv's return value
    \* ---- type inference (postgres.ts) ----
    sampleValues,   \* inferPostgresType's argument
    inferred,       \* inferPostgresType's return value
    \* ---- column configuration (CreateDatasetPage.tsx) ----
    rawData,        \* the rawData state: the rows of the parsed file
    headerSwitch,   \* the useFirstRowAsHeader state
    columnConfigs,  \* the columns state
    lastEvent,      \* the handler that ran last
    \* ---- identifier sanitizer and validator (postgres.ts) ----
    rawName,        \* sanitizeIdentifier's value, also given to getIdentifierError
    rawFallback,    \* sanitizeIdentifier's fallback, empty when there is none
    identifier,     \* what sanitizeIdentifier returned
    again,          \* what sanitizeIdentifier returned for its own result
    nameError,      \* what getIdentifierError returned for rawName
    identifierError \* what getIdentifierError returned for identifier

schemaVars == <<options, outcome, upload, formData>>
csvVars == <<content, maxRows, normalized, delimiter, scan, pc, parsed>>
inferVars == <<sampleValues, inferred>>
pageVars == <<rawData, headerSwitch, columnConfigs, lastEvent>>
sanitizeVars == <<rawName, rawFallback, identifier, again, nameError, identifierError>>
vars == <<schemaVars, csvVars, inferVars, pageVars, sanitizeVars>>

-----------------------------------------------------------------------------
(* Bounds of the model *)

MaxNameLen == 3
MaxCols == 2
MaxContentLen == 4
MaxDetectLen == 4
MaxMaxRows == 2
MaxSamples == 2
MaxRawLen == 3

-----------------------------------------------------------------------------
(* Strings *)

\* every sequence over alphabet of length at most n
RECURSIVE Strings(_, _)
Strings(alphabet, n) ==
    IF n = 0 THEN {<<>>}
    ELSE LET shorter == Strings(alphabet, n - 1)
         IN  shorter \cup {Append(s, c) : s \in {t \in shorter : Len(t) = n - 1},
                                          c \in alphabet}

\* the white space String.prototype.trim removes, as far as the model's alphabets go
WhiteSpace == {" ", "\t", "\n", "\r"}

RECURSIVE trimStart(_)
trimStart(s) ==
    IF s = <<>> \/ Head(s) \notin WhiteSpace THEN s ELSE trimStart(Tail(s))

RECURSIVE trimEnd(_)
trimEnd(s) ==
    IF s = <<>> \/ s[Len(s)] \notin WhiteSpace THEN s
    ELSE trimEnd(SubSeq(s, 1, Len(s) - 1))

\* String.prototype.trim
trim(s) == trimEnd(trimStart(s))

-----------------------------------------------------------------------------
(* JavaScript values that are not strings *)

\* a boolean and a number, each with the text JSON writes for it
JsBoolean(b) == [type |-> "boolean", value |-> IF b THEN <<"true">> ELSE <<"false">>]
JsNumber(digits) == [type |-> "number", value |-> digits]

-----------------------------------------------------------------------------
(* imports.ts: createImportSchema *)

Throw(message) == [status |-> "threw", message |-> message]
Return(value) == [status |-> "returned", value |-> value]
NoOutcome == [status |-> "none"]

TableNameRequired == "tableName is required"
ColumnRequired == "At least one column must be included"

schemaColumnUntrimmed(column) ==
    IF column.comment # <<>>
    THEN [Name |-> column.tableColumnName, DbType |-> column.dataType,
          Comment |-> column.comment]
    ELSE [Name |-> column.tableColumnName, DbType |-> column.dataType]

schemaColumnTrimmedName(column) ==
    LET trimmedComment == trim(column.comment)
    IN  IF trimmedComment # <<>>
        THEN [Name |-> trim(column.tableColumnName), DbType |-> column.dataType,
              Comment |-> trimmedComment]
        ELSE [Name |-> trim(column.tableColumnName), DbType |-> column.dataType]

\* the callback of activeColumns.map
schemaColumn(column) ==
    LET trimmedComment == trim(column.comment)
    IN  IF trimmedComment # <<>>
        THEN [Name |-> column.tableColumnName, DbType |-> column.dataType,
              Comment |-> trimmedComment]
        ELSE [Name |-> column.tableColumnName, DbType |-> column.dataType]

activeColumnsAll(columns) == columns

\* options.columns.filter((column) => column.include)
activeColumns(columns) == SelectSeq(columns, LAMBDA column : column.include)

\* FirstRowIsHeader: options.useFirstRowAsHeader
FirstRowIsHeaderField(useFirstRowAsHeader) == JsBoolean(useFirstRowAsHeader)

createImportSchemaAnyColumn(opts) ==
    LET trimmedTableName == trim(opts.tableName)
        active == activeColumns(opts.columns)
        columns == [i \in 1..Len(active) |-> schemaColumn(active[i])]
        trimmedComment == trim(opts.tableComment)
    IN  IF trimmedTableName = <<>> THEN Throw(TableNameRequired)
        ELSE IF Len(opts.columns) = 0 THEN Throw(ColumnRequired)
        ELSE IF trimmedComment # <<>>
        THEN Return([TableName |-> trimmedTableName,
                     FirstRowIsHeader |-> FirstRowIsHeaderField(opts.useFirstRowAsHeader),
                     Columns |-> columns,
                     TableComment |-> trimmedComment])
        ELSE Return([TableName |-> trimmedTableName,
                     FirstRowIsHeader |-> FirstRowIsHeaderField(opts.useFirstRowAsHeader),
                     Columns |-> columns])

createImportSchemaColumnsFirst(opts) ==
    LET trimmedTableName == trim(opts.tableName)
        active == activeColumns(opts.columns)
        columns == [i \in 1..Len(active) |-> schemaColumn(active[i])]
        trimmedComment == trim(opts.tableComment)
    IN  IF Len(active) = 0 THEN Throw(ColumnRequired)
        ELSE IF trimmedTableName = <<>> THEN Throw(TableNameRequired)
        ELSE IF trimmedComment # <<>>
        THEN Return([TableName |-> trimmedTableName,
                     FirstRowIsHeader |-> FirstRowIsHeaderField(opts.useFirstRowAsHeader),
                     Columns |-> columns,
                     TableComment |-> trimmedComment])
        ELSE Return([TableName |-> trimmedTableName,
                     FirstRowIsHeader |-> FirstRowIsHeaderField(opts.useFirstRowAsHeader),
                     Columns |-> columns])

createImportSchema(opts) ==
    LET trimmedTableName == trim(opts.tableName)
        active == activeColumns(opts.columns)
        columns == [i \in 1..Len(active) |-> schemaColumn(active[i])]
        trimmedComment == trim(opts.tableComment)
    IN  IF trimmedTableName = <<>> THEN Throw(TableNameRequired)
        ELSE IF Len(active) = 0 THEN Throw(ColumnRequired)
        ELSE IF trimmedComment # <<>>
        THEN Return([TableName |-> trimmedTableName,
                     FirstRowIsHeader |-> FirstRowIsHeaderField(opts.useFirstRowAsHeader),
                     Columns |-> columns,
                     TableComment |-> trimmedComment])
        ELSE Return([TableName |-> trimmedTableName,
                     FirstRowIsHeader |-> FirstRowIsHeaderField(opts.useFirstRowAsHeader),
                     Columns |-> columns])

-----------------------------------------------------------------------------
(* JSON.stringify and JSON.parse, on the text as a sequence of symbols *)

Digits == {"0", "1", "2", "3", "4", "5", "6", "7", "8", "9"}

\* the two-symbol escape JSON.stringify writes for a character, if any
Escape ==
    ("\"" :> "\"") @@ ("\\" :> "\\") @@ ("\n" :> "n") @@ ("\r" :> "r") @@ ("\t" :> "t")

\* the character a backslash escape stands for
Unescape ==
    ("\"" :> "\"") @@ ("\\" :> "\\") @@ ("n" :> "\n") @@ ("r" :> "\r") @@ ("t" :> "\t")

RECURSIVE escapeString(_)
escapeString(s) ==
    IF s = <<>> THEN <<>>
    ELSE (IF Head(s) \in DOMAIN Escape THEN <<"\\", Escape[Head(s)]>> ELSE <<Head(s)>>)
         \o escapeString(Tail(s))

\* JSON.stringify of a string
stringifyString(s) == <<"\"">> \o escapeString(s) \o <<"\"">>

\* JSON.stringify of a boolean or a number
stringifyScalar(v) == v.value

\* one "key":value member; the key is one of the program's fixed words
stringifyMember(key, valueText) == <<"\"", key, "\"", ":">> \o valueText

RECURSIVE joinWithCommas(_)
joinWithCommas(texts) ==
    IF texts = <<>> THEN <<>>
    ELSE IF Len(texts) = 1 THEN texts[1]
    ELSE texts[1] \o <<",">> \o joinWithCommas(Tail(texts))

\* JSON.stringify of an ImportColumnSchema: own keys in insertion order
stringifyColumn(column) ==
    <<"{">>
    \o joinWithCommas(
         <<stringifyMember("Name", stringifyString(column.Name)),
           stringifyMember("DbType", stringifyString(column.DbType))>>
         \o (IF "Comment" \in DOMAIN column
             THEN <<stringifyMember("Comment", stringifyString(column.Comment))>>
             ELSE <<>>))
    \o <<"}">>

\* JSON.stringify of an ImportSchema: own keys in insertion order, no white space
stringifySchema(schema) ==
    <<"{">>
    \o joinWithCommas(
         <<stringifyMember("TableName", stringifyString(schema.TableName)),
           stringifyMember("FirstRowIsHeader", stringifyScalar(schema.FirstRowIsHeader)),
           stringifyMember("Columns",
               <<"[">> \o joinWithCommas([i \in 1..Len(schema.Columns) |->
                                                  stringifyColumn(schema.Columns[i])]) \o <<"]">>)>>
         \o (IF "TableComment" \in DOMAIN schema
             THEN <<stringifyMember("TableComment", stringifyString(schema.TableComment))>>
             ELSE <<>>))
    \o <<"}">>

ParseError == [ok |-> FALSE]
Parsed(value, next) == [ok |-> TRUE, value |-> value, next |-> next]

\* the rest of a JSON string, from position i just after its opening quote
RECURSIVE parseStringBody(_, _, _)
parseStringBody(text, i, acc) ==
    IF i > Len(text) THEN ParseError
    ELSE IF text[i] = "\"" THEN Parsed(acc, i + 1)
    ELSE IF text[i] = "\\"
    THEN IF i + 1 > Len(text) \/ text[i + 1] \notin DOMAIN Unescape THEN ParseError
         ELSE parseStringBody(text, i + 2, Append(acc, Unescape[text[i + 1]]))
    ELSE parseStringBody(text, i + 1, Append(acc, text[i]))

RECURSIVE parseDigits(_, _, _)
parseDigits(text, i, acc) ==
    IF i <= Len(text) /\ text[i] \in Digits
    THEN parseDigits(text, i + 1, Append(acc, text[i]))
    ELSE Parsed(JsNumber(acc), i)

RECURSIVE parseValue(_, _)
RECURSIVE parseMembers(_, _, _)
RECURSIVE parseElements(_, _, _)

\* JSON value at position i: string, true, false, number, object, array
parseValue(text, i) ==
    IF i > Len(text) THEN ParseError
    ELSE IF text[i] = "\"" THEN parseStringBody(text, i + 1, <<>>)
    ELSE IF text[i] \in {"true", "false"} THEN Parsed(JsBoolean(text[i] = "true"), i + 1)
    ELSE IF text[i] \in Digits THEN parseDigits(text, i, <<>>)
    ELSE IF text[i] = "{"
    THEN IF i + 1 <= Len(text) /\ text[i + 1] = "}" THEN Parsed(<<>>, i + 2)
         ELSE parseMembers(text, i + 1, <<>>)
    ELSE IF text[i] = "["
    THEN IF i + 1 <= Len(text) /\ text[i + 1] = "]" THEN Parsed(<<>>, i + 2)
         ELSE parseElements(text, i + 1, <<>>)
    ELSE ParseError

\* the members of an object from position i, acc the members read so far
parseMembers(text, i, acc) ==
    IF i > Len(text) \/ text[i] # "\"" THEN ParseError
    ELSE LET key == parseStringBody(text, i + 1, <<>>)
         IN  IF ~key.ok \/ Len(key.value) # 1 THEN ParseError
             ELSE IF key.next > Len(text) \/ text[key.next] # ":" THEN ParseError
             ELSE LET member == parseValue(text, key.next + 1)
                  IN  IF ~member.ok \/ member.next > Len(text) THEN ParseError
                      ELSE LET object == (key.value[1] :> member.value) @@ acc
                           IN  IF text[member.next] = "}" THEN Parsed(object, member.next + 1)
                               ELSE IF text[member.next] = ","
                               THEN parseMembers(text, member.next + 1, object)
                               ELSE ParseError

\* the elements of an array from position i, acc the elements read so far
parseElements(text, i, acc) ==
    LET element == parseValue(text, i)
    IN  IF ~element.ok \/ element.next > Len(text) THEN ParseError
        ELSE LET array == Append(acc, element.value)
             IN  IF text[element.next] = "]" THEN Parsed(array, element.next + 1)
                 ELSE IF text[element.next] = ","
                 THEN parseElements(text, element.next + 1, array)
                 ELSE ParseError

\* JSON.parse: the whole text is one value, or a SyntaxError
JSONparse(text) ==
    LET r == parseValue(text, 1)
    IN  IF r.ok /\ r.next = Len(text) + 1 THEN Return(r.value) ELSE Throw("SyntaxError")

-----------------------------------------------------------------------------
(* imports.ts: buildImportFormData *)

\* FormData.append(name, value) with a string value: a plain string field
appendString(data, name, value) ==
    Append(data, [name |-> name, kind |-> "string", value |-> value])

\* FormData.append(name, blob, filename): a file part
appendFile(data, name, blob, filename) ==
    Append(data, [name |-> name, kind |-> "file", value |-> blob.bytes, filename |-> filename])

\* FormData.get(name): the first entry of that name
formDataGet(data, name) ==
    LET hits == SelectSeq(data, LAMBDA entry : entry.name = name)
    IN  IF hits = <<>> THEN [kind |-> "null"] ELSE hits[1]

buildImportFormData(schema, file) ==
    appendFile(appendString(<<>>, "schema", stringifySchema(schema)),
               "file", file, file.name)

-----------------------------------------------------------------------------
(* csv.ts *)

CANDIDATE_DELIMITERS == <<",", ";", "\t", "|">>
DefaultMaxRows == 500
SampleLines == 10

\* normalized[index + 1] past the end of the string
Undefined == "undefined"

\* content.replace(/\r\n?/g, "\n")
RECURSIVE normalizeLineEndings(_)
normalizeLineEndings(s) ==
    IF s = <<>> THEN <<>>
    ELSE IF Head(s) = "\r"
    THEN <<"\n">> \o normalizeLineEndings(IF Len(s) >= 2 /\ s[2] = "\n"
                                         THEN Tail(Tail(s)) ELSE Tail(s))
    ELSE <<Head(s)>> \o normalizeLineEndings(Tail(s))

\* String.prototype.split on a one-character separator; piece is the piece being
\* read and pieces those already cut off
RECURSIVE splitFrom(_, _, _, _)
splitFrom(s, separator, piece, pieces) ==
    IF s = <<>> THEN Append(pieces, piece)
    ELSE IF Head(s) = separator THEN splitFrom(Tail(s), separator, <<>>, Append(pieces, piece))
    ELSE splitFrom(Tail(s), separator, Append(piece, Head(s)), pieces)

split(s, separator) == splitFrom(s, separator, <<>>, <<>>)

\* Array.prototype.slice(0, n)
sliceFirst(s, n) == SubSeq(s, 1, IF Len(s) < n THEN Len(s) ELSE n)

sampleOfEveryLine(text) == split(text, "\n")

\* content.split("\n").slice(0, 10)
sampleOf(text) == sliceFirst(split(text, "\n"), SampleLines)

\* the reduce over the sample: empty lines add nothing, others their split length
RECURSIVE scoreOf(_, _)
scoreOf(sample, candidate) ==
    IF sample = <<>> THEN 0
    ELSE (IF Head(sample) = <<>> THEN 0 ELSE Len(split(Head(sample), candidate)))
         + scoreOf(Tail(sample), candidate)

betterOrEqual(score, bestScore) == score >= bestScore

\* if (score > bestScore)
better(score, bestScore) == score > bestScore

\* the loop over CANDIDATE_DELIMITERS from position k on
RECURSIVE bestFrom(_, _, _, _)
bestFrom(sample, k, bestDelimiter, bestScore) ==
    IF k > Len(CANDIDATE_DELIMITERS) THEN bestDelimiter
    ELSE LET candidate == CANDIDATE_DELIMITERS[k]
             score == scoreOf(sample, candidate)
         IN  IF better(score, bestScore)
             THEN bestFrom(sample, k + 1, candidate, score)
             ELSE bestFrom(sample, k + 1, bestDelimiter, bestScore)

detectDelimiter(text) == bestFrom(sampleOf(text), 1, ",", -1)

\* the locals of parseCsv before its loop
InitialScan ==
    [index |-> 1, currentField |-> <<>>, currentRow |-> <<>>, insideQuotes |-> FALSE,
     rows |-> <<>>, broke |-> FALSE]

quoteStepToggleOnly(st, nextChar) ==
    [st EXCEPT !.insideQuotes = ~@, !.index = @ + 1]

\* if (char === '"') { ... continue }
quoteStep(st, nextChar) ==
    IF st.insideQuotes /\ nextChar = "\""
    THEN [st EXCEPT !.currentField = Append(@, "\""), !.index = @ + 2]
    ELSE [st EXCEPT !.insideQuotes = ~@, !.index = @ + 1]

endsFieldIgnoringQuotes(st, char, delim) == char = delim \/ char = "\n"

\* !insideQuotes && (isDelimiter || isNewLine)
endsField(st, char, delim) == ~st.insideQuotes /\ (char = delim \/ char = "\n")

fieldEndStepNoBreak(st, isNewLine, limit) ==
    LET row == Append(st.currentRow, st.currentField)
    IN  IF ~isNewLine
        THEN [st EXCEPT !.currentField = <<>>, !.currentRow = row, !.index = @ + 1]
        ELSE [st EXCEPT !.currentField = <<>>, !.currentRow = <<>>,
                        !.rows = Append(st.rows, row), !.index = @ + 1]

\* the body of that if: the field ends, and on a newline the row too
fieldEndStep(st, isNewLine, limit) ==
    LET row == Append(st.currentRow, st.currentField)
        pushed == Append(st.rows, row)
    IN  IF ~isNewLine
        THEN [st EXCEPT !.currentField = <<>>, !.currentRow = row, !.index = @ + 1]
        ELSE IF Len(pushed) >= limit
        THEN [st EXCEPT !.currentField = <<>>, !.currentRow = <<>>, !.rows = pushed,
                        !.broke = TRUE]
        ELSE [st EXCEPT !.currentField = <<>>, !.currentRow = <<>>, !.rows = pushed,
                        !.index = @ + 1]

\* one iteration of the for loop, its index += 1 included
scanStep(text, delim, limit, st) ==
    LET char == text[st.index]
        nextChar == IF st.index + 1 <= Len(text) THEN text[st.index + 1] ELSE Undefined
    IN  IF char = "\"" THEN quoteStep(st, nextChar)
        ELSE IF endsField(st, char, delim) THEN fieldEndStep(st, char = "\n", limit)
        ELSE [st EXCEPT !.currentField = Append(@, char), !.index = @ + 1]

\* the loop is over: index < normalized.length is false, or break was taken
scanOver(text, st) == st.broke \/ st.index > Len(text)

flushUnlessQuoted(st) ==
    LET row == IF (Len(st.currentField) > 0 \/ Len(st.currentRow) > 0) /\ ~st.insideQuotes
               THEN Append(st.currentRow, st.currentField) ELSE st.currentRow
    IN  [st EXCEPT !.currentRow = row,
                   !.rows = IF Len(row) > 0 THEN Append(@, row) ELSE @]

\* the two ifs after the loop
flush(st) ==
    LET row == IF Len(st.currentField) > 0 \/ Len(st.currentRow) > 0
               THEN Append(st.currentRow, st.currentField) ELSE st.currentRow
    IN  [st EXCEPT !.currentRow = row,
                   !.rows = IF Len(row) > 0 THEN Append(@, row) ELSE @]

hasValueUntrimmed(row) == \E i \in 1..Len(row) : Len(row[i]) > 0

\* row.some((cell) => cell.trim().length > 0)
hasValue(row) == \E i \in 1..Len(row) : Len(trim(row[i])) > 0

\* the while loop of trimTrailingEmptyRows, end 1-based
RECURSIVE lastRowWithValue(_, _)
lastRowWithValue(rs, end) ==
    IF end >= 1 /\ ~hasValue(rs[end]) THEN lastRowWithValue(rs, end - 1) ELSE end

trimTrailingEmptyRows(rs) == SubSeq(rs, 1, lastRowWithValue(rs, Len(rs)))

\* the whole loop, from st on
RECURSIVE scanFrom(_, _, _, _)
scanFrom(text, delim, limit, st) ==
    IF scanOver(text, st) THEN st ELSE scanFrom(text, delim, limit, scanStep(text, delim, limit, st))

\* parseCsv's return statement
resultOf(st, delim) == [rows |-> trimTrailingEmptyRows(st.rows), delimiter |-> delim]

\* parseCsv(content, {maxRows: limit})
parseCsv(text, limit) ==
    LET norm == normalizeLineEndings(text)
        delim == detectDelimiter(norm)
    IN  resultOf(flush(scanFrom(norm, delim, limit, InitialScan)), delim)

-----------------------------------------------------------------------------
(* postgres.ts: inferPostgresType *)

\* String.prototype.toLowerCase, on the letters A-Z
LowerCaseOf ==
    [c \in {"A", "B", "C", "D", "E", "F", "G", "H", "I", "J", "K", "L", "M",
            "N", "O", "P", "Q", "R", "S", "T", "U", "V", "W", "X", "Y", "Z"} |->
        CASE c = "A" -> "a" [] c = "B" -> "b" [] c = "C" -> "c" [] c = "D" -> "d"
          [] c = "E" -> "e" [] c = "F" -> "f" [] c = "G" -> "g" [] c = "H" -> "h"
          [] c = "I" -> "i" [] c = "J" -> "j" [] c = "K" -> "k" [] c = "L" -> "l"
          [] c = "M" -> "m" [] c = "N" -> "n" [] c = "O" -> "o" [] c = "P" -> "p"
          [] c = "Q" -> "q" [] c = "R" -> "r" [] c = "S" -> "s" [] c = "T" -> "t"
          [] c = "U" -> "u" [] c = "V" -> "v" [] c = "W" -> "w" [] c = "X" -> "x"
          [] c = "Y" -> "y" [] c = "Z" -> "z"]

toLowerCase(s) ==
    [i \in 1..Len(s) |-> IF s[i] \in DOMAIN LowerCaseOf THEN LowerCaseOf[s[i]] ELSE s[i]]

BOOLEAN_VALUES ==
    {<<"t", "r", "u", "e">>, <<"f", "a", "l", "s", "e">>, <<"t">>, <<"f">>,
     <<"y", "e", "s">>, <<"n", "o">>, <<"y">>, <<"n">>, <<"1">>, <<"0">>}

SampleCap == 25
Int32Max == <<"2", "1", "4", "7", "4", "8", "3", "6", "4", "7">>
VarcharMax == 255

looksLikeBoolean(value) == toLowerCase(value) \in BOOLEAN_VALUES

\* \d+ with nothing else: used for the \d{n} and \d+ of the patterns
allDigits(s) == \A i \in 1..Len(s) : s[i] \in Digits

\* what follows the [+-]? of the two number patterns
unsigned(value) ==
    IF Len(value) > 0 /\ value[1] \in {"+", "-"} THEN Tail(value) ELSE value

\* /^[+-]?\d+$/
looksLikeInteger(value) == Len(unsigned(value)) > 0 /\ allDigits(unsigned(value))

\* /^[+-]?(\d+\.?\d*|\d*\.\d+)$/ : digits with at most one point among them
looksLikeNumeric(value) ==
    LET body == unsigned(value)
        points == {i \in 1..Len(body) : body[i] = "."}
    IN  /\ \A i \in 1..Len(body) : body[i] \in Digits \cup {"."}
        /\ Cardinality(points) <= 1
        /\ Len(body) > Cardinality(points)

\* \d{4}-\d{2}-\d{2}
datePattern(s) ==
    /\ Len(s) = 10
    /\ allDigits(SubSeq(s, 1, 4)) /\ s[5] = "-"
    /\ allDigits(SubSeq(s, 6, 7)) /\ s[8] = "-"
    /\ allDigits(SubSeq(s, 9, 10))

\* (\.\d{1,6})?$
fractionPattern(s) == s = <<>> \/ (s[1] = "." /\ Len(s) \in 2..7 /\ allDigits(Tail(s)))

\* (:\d{2})?(\.\d{1,6})?$
secondsPattern(s) ==
    IF Len(s) >= 3 /\ s[1] = ":" /\ allDigits(SubSeq(s, 2, 3))
    THEN fractionPattern(SubSeq(s, 4, Len(s)))
    ELSE fractionPattern(s)

\* ([ T]\d{2}:\d{2}(:\d{2})?(\.\d{1,6})?)?$
timePattern(s) ==
    \/ s = <<>>
    \/ /\ Len(s) >= 6
       /\ s[1] \in {" ", "T"}
       /\ allDigits(SubSeq(s, 2, 3)) /\ s[4] = ":" /\ allDigits(SubSeq(s, 5, 6))
       /\ secondsPattern(SubSeq(s, 7, Len(s)))

\* /^(\d{4}-\d{2}-\d{2})([ T]\d{2}:\d{2}(:\d{2})?(\.\d{1,6})?)?$/
looksLikeTimestamp(value) ==
    /\ Len(value) >= 10
    /\ datePattern(SubSeq(value, 1, 10))
    /\ timePattern(SubSeq(value, 11, Len(value)))

\* /^\d{4}-\d{2}-\d{2}$/
looksLikeDate(value) == datePattern(value)

HexDigits == Digits \cup {"a", "b", "c", "d", "e", "f", "A", "B", "C", "D", "E", "F"}

\* /^[0-9a-f]{8}-[0-9a-f]{4}-[1-5][0-9a-f]{3}-[89ab][0-9a-f]{3}-[0-9a-f]{12}$/i
looksLikeUuid(value) ==
    /\ Len(value) = 36
    /\ \A i \in 1..36 :
          IF i \in {9, 14, 19, 24} THEN value[i] = "-"
          ELSE IF i = 15 THEN value[i] \in {"1", "2", "3", "4", "5"}
          ELSE IF i = 20 THEN value[i] \in {"8", "9", "a", "b", "A", "B"}
          ELSE value[i] \in HexDigits

\* a text that begins with [ or { parses to an array or an object, never to null
looksLikeJson(value) ==
    LET trimmed == trim(value)
    IN  /\ trimmed # <<>>
        /\ trimmed[1] \in {"[", "{"}
        /\ JSONparse(trimmed).status = "returned"

RECURSIVE stripLeadingZeros(_)
stripLeadingZeros(digits) ==
    IF digits # <<>> /\ Head(digits) = "0" THEN stripLeadingZeros(Tail(digits)) ELSE digits

\* Math.abs(parseInt(value, 10)) of a string of the integer pattern: the
\* magnitude, as its decimal digits without leading zeros (zero is no digit)
absParseInt(value) == stripLeadingZeros(unsigned(value))

DigitValue ==
    ("0" :> 0) @@ ("1" :> 1) @@ ("2" :> 2) @@ ("3" :> 3) @@ ("4" :> 4) @@
    ("5" :> 5) @@ ("6" :> 6) @@ ("7" :> 7) @@ ("8" :> 8) @@ ("9" :> 9)

\* a > b for two magnitudes
greaterThan(a, b) ==
    \/ Len(a) > Len(b)
    \/ /\ Len(a) = Len(b)
       /\ \E i \in 1..Len(a) :
             /\ DigitValue[a[i]] > DigitValue[b[i]]
             /\ SubSeq(a, 1, i - 1) = SubSeq(b, 1, i - 1)

\* Math.max(...magnitudes) of a non-empty list
mathMax(magnitudes) ==
    magnitudes[CHOOSE i \in 1..Len(magnitudes) :
                  \A j \in 1..Len(magnitudes) : ~greaterThan(magnitudes[j], magnitudes[i])]

\* samples.map(trim).slice(0, 25).filter(non-empty)
cleanSamplesSliceFirst(samples) ==
    SelectSeq(SubSeq([i \in 1..Len(samples) |-> trim(samples[i])], 1,
                     IF Len(samples) < SampleCap THEN Len(samples) ELSE SampleCap),
              LAMBDA value : Len(value) > 0)

\* samples.map(trim).filter(non-empty).slice(0, 25)
cleanSamples(samples) ==
    LET kept == SelectSeq([i \in 1..Len(samples) |-> trim(samples[i])],
                          LAMBDA value : Len(value) > 0)
    IN  SubSeq(kept, 1, IF Len(kept) < SampleCap THEN Len(kept) ELSE SampleCap)

\* postgres.ts 86, with >= for >
integerOrBigintInclusive(cleanedSamples) ==
    IF ~greaterThan(Int32Max,
                    mathMax([i \in 1..Len(cleanedSamples) |-> absParseInt(cleanedSamples[i])]))
    THEN <<"bigint">> ELSE <<"integer">>

\* postgres.ts 83-86
integerOrBigint(cleanedSamples) ==
    LET maxAbsolute ==
            mathMax([i \in 1..Len(cleanedSamples) |-> absParseInt(cleanedSamples[i])])
    IN  IF greaterThan(maxAbsolute, Int32Max) THEN <<"bigint">> ELSE <<"integer">>

fitsVarcharStrictly(value) == Len(value) < VarcharMax

\* value.length <= 255
fitsVarchar(value) == Len(value) <= VarcharMax

\* the cascade with the integer rule tried before the boolean rule
cascadeIntegerFirst(cleanedSamples) ==
    LET every == cleanedSamples
        n == Len(cleanedSamples)
    IN  IF \A i \in 1..n : looksLikeInteger(every[i]) THEN integerOrBigint(every)
        ELSE IF \A i \in 1..n : looksLikeBoolean(every[i]) THEN <<"boolean">>
        ELSE IF \A i \in 1..n : looksLikeNumeric(every[i]) THEN <<"numeric">>
        ELSE IF \A i \in 1..n : looksLikeTimestamp(every[i]) THEN <<"timestamp">>
        ELSE IF \A i \in 1..n : looksLikeDate(every[i]) THEN <<"date">>
        ELSE IF \A i \in 1..n : looksLikeUuid(every[i]) THEN <<"uuid">>
        ELSE IF \A i \in 1..n : looksLikeJson(every[i]) THEN <<"jsonb">>
        ELSE IF \A i \in 1..n : fitsVarchar(every[i]) THEN <<"varchar">>
        ELSE <<"text">>

\* postgres.ts 78-113: the rules over a non-empty cleanedSamples
cascade(cleanedSamples) ==
    LET n == Len(cleanedSamples)
    IN  IF \A i \in 1..n : looksLikeBoolean(cleanedSamples[i]) THEN <<"boolean">>
        ELSE IF \A i \in 1..n : looksLikeInteger(cleanedSamples[i])
        THEN integerOrBigint(cleanedSamples)
        ELSE IF \A i \in 1..n : looksLikeNumeric(cleanedSamples[i]) THEN <<"numeric">>
        ELSE IF \A i \in 1..n : looksLikeTimestamp(cleanedSamples[i]) THEN <<"timestamp">>
        ELSE IF \A i \in 1..n : looksLikeDate(cleanedSamples[i]) THEN <<"date">>
        ELSE IF \A i \in 1..n : looksLikeUuid(cleanedSamples[i]) THEN <<"uuid">>
        ELSE IF \A i \in 1..n : looksLikeJson(cleanedSamples[i]) THEN <<"jsonb">>
        ELSE IF \A i \in 1..n : fitsVarchar(cleanedSamples[i]) THEN <<"varchar">>
        ELSE <<"text">>

inferPostgresType(samples) ==
    LET cleanedSamples == cleanSamples(samples)
    IN  IF Len(cleanedSamples) = 0 THEN <<"text">> ELSE cascade(cleanedSamples)

-----------------------------------------------------------------------------
(* postgres.ts: sanitizeIdentifier *)

IdentifierMax == 63
IdentifierChars ==
    {LowerCaseOf[c] : c \in DOMAIN LowerCaseOf} \cup Digits \cup {"_"}

\* .replace(/\s+/g, "_"): every run of white space becomes one underscore
RECURSIVE replaceWhiteSpaceRuns(_)
replaceWhiteSpaceRuns(s) ==
    IF s = <<>> THEN <<>>
    ELSE IF Head(s) \in WhiteSpace THEN <<"_">> \o replaceWhiteSpaceRuns(trimStart(s))
    ELSE <<Head(s)>> \o replaceWhiteSpaceRuns(Tail(s))

\* .replace(/[^a-z0-9_]/g, "_")
RECURSIVE replaceInvalid(_)
replaceInvalid(s) ==
    IF s = <<>> THEN <<>>
    ELSE <<IF Head(s) \in IdentifierChars THEN Head(s) ELSE "_">> \o replaceInvalid(Tail(s))

\* .replace(/_+/g, "_")
RECURSIVE collapseUnderscores(_)
collapseUnderscores(s) ==
    IF s = <<>> THEN <<>>
    ELSE IF Len(s) >= 2 /\ s[1] = "_" /\ s[2] = "_" THEN collapseUnderscores(Tail(s))
    ELSE <<Head(s)>> \o collapseUnderscores(Tail(s))

\* .replace(/^_+|_+$/g, "")
RECURSIVE stripUnderscores(_)
stripUnderscores(s) ==
    IF s = <<>> THEN <<>>
    ELSE IF Head(s) = "_" THEN stripUnderscores(Tail(s))
    ELSE IF s[Len(s)] = "_" THEN stripUnderscores(SubSeq(s, 1, Len(s) - 1))
    ELSE s

sanitizeStepsInvalidFirst(value) ==
    LET normalized0 == replaceWhiteSpaceRuns(trim(value))
    IN  stripUnderscores(collapseUnderscores(toLowerCase(replaceInvalid(normalized0))))

\* postgres.ts 32-34
sanitizeSteps(value) ==
    LET normalized0 == replaceWhiteSpaceRuns(toLowerCase(trim(value)))
    IN  stripUnderscores(collapseUnderscores(replaceInvalid(normalized0)))

sanitizeFinishTruncateFirst(sanitized) ==
    LET named == IF sanitized = <<>> THEN <<"i", "t", "e", "m">> ELSE sanitized
        cut == IF Len(named) > IdentifierMax THEN SubSeq(named, 1, IdentifierMax) ELSE named
    IN  IF cut[1] \in Digits THEN <<"_">> \o cut ELSE cut

\* postgres.ts 40-52
sanitizeFinish(sanitized) ==
    LET named == IF sanitized = <<>> THEN <<"i", "t", "e", "m">> ELSE sanitized
        prefixed == IF named[1] \in Digits THEN <<"_">> \o named ELSE named
    IN  IF Len(prefixed) > IdentifierMax THEN SubSeq(prefixed, 1, IdentifierMax)
        ELSE prefixed

sanitizeIdentifierNoFallback(value, fallback) == sanitizeFinish(sanitizeSteps(value))

\* no fallback, or an empty one, is the empty string: both are falsy at line 36
sanitizeIdentifier(value, fallback) ==
    IF sanitizeSteps(value) = <<>> /\ fallback # <<>>
    THEN sanitizeFinish(sanitizeSteps(fallback))
    ELSE sanitizeFinish(sanitizeSteps(value))

-----------------------------------------------------------------------------
(* postgres.ts: getIdentifierError *)

\* /^[a-z_][a-z0-9_]*$/.test(value)
POSTGRES_IDENTIFIER_PATTERN(value) ==
    /\ value # <<>>
    /\ value[1] \in IdentifierChars \ Digits
    /\ \A i \in 2..Len(value) : value[i] \in IdentifierChars

\* the three messages, written in Persian in the source: one symbol each
ErrorMessage ==
    [required |-> "name must not be empty",
     tooLong |-> "name must be shorter than 63 characters",
     invalid |-> "name must start with a letter or underscore and hold only lowercase letters, underscores and digits"]

Null == "null"

getIdentifierErrorPatternFirst(value) ==
    IF value = <<>> THEN ErrorMessage.required
    ELSE IF ~POSTGRES_IDENTIFIER_PATTERN(value) THEN ErrorMessage.invalid
    ELSE IF Len(value) > IdentifierMax THEN ErrorMessage.tooLong
    ELSE Null

\* postgres.ts 55-66
getIdentifierError(value) ==
    IF value = <<>> THEN ErrorMessage.required
    ELSE IF Len(value) > IdentifierMax THEN ErrorMessage.tooLong
    ELSE IF ~POSTGRES_IDENTIFIER_PATTERN(value) THEN ErrorMessage.invalid
    ELSE Null

-----------------------------------------------------------------------------
(* CreateDatasetPage.tsx: buildColumns *)

SampleRows == 12

\* the word for "column" of the default header label, written in Persian script
\* in the source: one symbol here
ColumnWord == "sotun"

\* `${n}` of a number
RECURSIVE decimal(_)
decimal(n) ==
    IF n < 10 THEN <<CHOOSE c \in Digits : DigitValue[c] = n>>
    ELSE decimal(n \div 10) \o <<CHOOSE c \in Digits : DigitValue[c] = n % 10>>

\* row[index] ?? "", index counted from 0
cellAt(row, index) == IF index < Len(row) THEN row[index + 1] ELSE <<>>

\* `column-${index}`
columnId(index) == <<"column-">> \o decimal(index)

\* `column_${index + 1}`
defaultColumnName(index) == <<"c", "o", "l", "u", "m", "n", "_">> \o decimal(index + 1)

columnCountOfDataRows(headerRow, dataRows) ==
    LET lengths == {0} \cup {Len(dataRows[r]) : r \in 1..Len(dataRows)}
    IN  CHOOSE n \in lengths : \A m \in lengths : m <= n

\* Math.max(headerRow.length, ...dataRows.map((row) => row.length))
columnCountOf(headerRow, dataRows) ==
    LET lengths == {Len(headerRow)} \cup {Len(dataRows[r]) : r \in 1..Len(dataRows)}
    IN  CHOOSE n \in lengths : \A m \in lengths : m <= n

findPreviousFirst(previousColumns, id) ==
    IF previousColumns = <<>> THEN <<>> ELSE <<previousColumns[1]>>

findPreviousOther(previousColumns, id) ==
    LET found == SelectSeq(previousColumns, LAMBDA column : column.id # id)
    IN  IF found = <<>> THEN <<>> ELSE <<found[1]>>

\* previousColumns.find((column) => column.id === id): the columns found, none or one
findPrevious(previousColumns, id) ==
    LET found == SelectSeq(previousColumns, LAMBDA column : column.id = id)
    IN  IF found = <<>> THEN <<>> ELSE <<found[1]>>

carriedNameWhenPrevious(previous, isNameDirty, autoColumnName) ==
    IF previous # <<>> THEN previous[1].tableColumnName ELSE autoColumnName

\* isNameDirty ? previous?.tableColumnName ?? autoColumnName : autoColumnName
carriedName(previous, isNameDirty, autoColumnName) ==
    IF isNameDirty /\ previous # <<>> THEN previous[1].tableColumnName ELSE autoColumnName

carriedTypeNever(previous, isTypeDirty, inferredType) == inferredType

\* isTypeDirty ? previous?.dataType ?? inferredType : inferredType
carriedType(previous, isTypeDirty, inferredType) ==
    IF isTypeDirty /\ previous # <<>> THEN previous[1].dataType ELSE inferredType

\* the callback of Array.from at CreateDatasetPage.tsx 491-518
buildColumn(headerRow, dataRows, previousColumns, index) ==
    LET sourceName == trim(cellAt(headerRow, index))
        headerLabel == IF sourceName # <<>> THEN sourceName
                       ELSE <<ColumnWord, " ">> \o decimal(index + 1)
        autoColumnName ==
            sanitizeIdentifier(IF sourceName # <<>> THEN sourceName
                               ELSE defaultColumnName(index),
                               defaultColumnName(index))
        sampled == SubSeq(dataRows, 1, IF Len(dataRows) < SampleRows THEN Len(dataRows)
                                       ELSE SampleRows)
        samples == [r \in 1..Len(sampled) |-> trim(cellAt(sampled[r], index))]
        inferredType == inferPostgresType(samples)
        previous == findPrevious(previousColumns, columnId(index))
        include == IF previous # <<>> THEN previous[1].include ELSE TRUE
        isNameDirty == IF previous # <<>> THEN previous[1].isNameDirty ELSE FALSE
        isTypeDirty == IF previous # <<>> THEN previous[1].isTypeDirty ELSE FALSE
    IN  [id |-> columnId(index),
         headerLabel |-> headerLabel,
         sourceName |-> sourceName,
         sampleValues |-> samples,
         include |-> include,
         comment |-> IF previous # <<>> THEN previous[1].comment ELSE <<>>,
         autoColumnName |-> autoColumnName,
         tableColumnName |-> carriedName(previous, isNameDirty, autoColumnName),
         isNameDirty |-> isNameDirty,
         autoType |-> inferredType,
         dataType |-> carriedType(previous, isTypeDirty, inferredType),
         isTypeDirty |-> isTypeDirty]

\* CreateDatasetPage.tsx 479-519
buildColumns(rows, useHeader, previousColumns) ==
    LET headerRow == IF useHeader /\ rows # <<>> THEN rows[1] ELSE <<>>
        dataRows == IF useHeader THEN SubSeq(rows, 2, Len(rows)) ELSE rows
        columnCount == columnCountOf(headerRow, dataRows)
    IN  [k \in 1..columnCount |-> buildColumn(headerRow, dataRows, previousColumns, k - 1)]

-----------------------------------------------------------------------------
(* The import schema builder as a state machine: an input is drawn, then   *)
(* createImportSchema is applied to it, then buildImportFormData to the    *)
(* schema it returned.                                                     *)

TableNames == Strings({" ", "T"}, MaxNameLen)
Comments == {<<>>, <<" ">>, <<" ", "c", " ">>}
ColumnInputs ==
    {[include |-> include, tableColumnName |-> named[1], dataType |-> named[2],
      comment |-> comment] :
        include \in BOOLEAN,
        named \in {<< <<"a">>, <<"integer">> >>, << <<" ", "1", "\"">>, <<"text">> >>},
        comment \in Comments}
ColumnLists == UNION {[1..n -> ColumnInputs] : n \in 0..MaxCols}
Files == {[name |-> <<"s", ".", "csv">>, bytes |-> <<"i", ",", "n">>],
          [name |-> <<"t">>, bytes |-> <<>>]}

NoFile == [name |-> <<>>, bytes |-> <<>>]
NoFormData == <<>>

NoResult == [rows |-> <<>>, delimiter |-> ","]

\* n times the character c
Repeat(c, n) == [i \in 1..n |-> c]

\* sample strings: one or more of each form the rules tell apart
Sample ==
    [True |-> <<"t", "r", "u", "e">>,
     Yes |-> <<"Y", "e", "s">>,
     One |-> <<"1">>,
     Zero |-> <<"0">>,
     Two |-> <<"2">>,
     ThreeHundred |-> <<"3", "0", "0">>,
     MaxInteger |-> <<"2", "1", "4", "7", "4", "8", "3", "6", "4", "7">>,
     MinBigint |-> <<"2", "1", "4", "7", "4", "8", "3", "6", "4", "8">>,
     NegativeBigint |-> <<"-", "2", "1", "4", "7", "4", "8", "3", "6", "4", "8">>,
     Decimal |-> <<"1", ".", "5">>,
     PaddedSeven |-> <<" ", "7", " ">>,
     PlainDate |-> <<"2", "0", "2", "4", "-", "0", "1", "-", "0", "1">>,
     OtherDate |-> <<"2", "0", "2", "4", "-", "0", "1", "-", "0", "2">>,
     DateTime |-> <<"2", "0", "2", "4", "-", "0", "1", "-", "0", "1", " ", "1", "0", ":", "3", "0">>,
     Uuid |-> <<"1", "2", "3", "e", "4", "5", "6", "7", "-", "e", "8", "9", "b", "-", "4", "2", "d", "3", "-", "a", "4", "5", "6", "-", "4", "2", "6", "6", "1", "4", "1", "7", "4", "0", "0", "0">>,
     JsonObject |-> <<"{", "\"", "a", "\"", ":", "1", "}">>,
     BrokenJson |-> <<"{", "a", "}">>,
     Words |-> <<"n", "o", "t", " ", "a", " ", "n", "u", "m", "b", "e", "r">>,
     Blank |-> <<" ">>,
     OfVarcharMax |-> Repeat("x", VarcharMax),
     OverVarcharMax |-> <<" ">> \o Repeat("x", VarcharMax + 1) \o <<" ">>]

SamplePool ==
    {Sample[name] : name \in DOMAIN Sample \ {"Yes", "ThreeHundred", "OtherDate"}}

\* the examples of the rules, as whole sample lists
Example ==
    [Boolean |-> <<Sample.True, <<"f", "a", "l", "s", "e">>, Sample.Yes>>,
     Integer |-> <<Sample.One, Sample.Two, Sample.ThreeHundred>>,
     Date |-> <<Sample.PlainDate, Sample.OtherDate>>,
     Varchar |-> <<Sample.Words, Sample.Two>>]

\* lists of at most MaxSamples samples of the pool, each after one of: nothing,
\* 24 or 25 samples that survive the cleaning, or 25 that do not
SampleInputs ==
    LET SampleLists == Strings(SamplePool, MaxSamples)
        SamplePrefixes ==
            {<<>>, [i \in 1..(SampleCap - 1) |-> <<"7">>],
             [i \in 1..SampleCap |-> <<"7">>], [i \in 1..SampleCap |-> Sample.Blank]}
    IN  {prefix \o list : prefix \in SamplePrefixes, list \in SampleLists}
            \cup {Example[k] : k \in DOMAIN Example}

NotInferred == <<>>

\* neither function called yet
sanitizeIdle ==
    /\ rawName = <<>> /\ rawFallback = <<>>
    /\ identifier = NoOutcome /\ again = NoOutcome
    /\ nameError = NoOutcome /\ identifierError = NoOutcome

inferIdle == sampleValues = <<>> /\ inferred = NotInferred

\* the page as mounted: no file, the switch on, no column
pageIdle ==
    /\ rawData = <<>> /\ headerSwitch = TRUE /\ columnConfigs = <<>>
    /\ lastEvent = "mount"


csvIdle ==
    /\ content = <<>> /\ maxRows = DefaultMaxRows /\ normalized = <<>>
    /\ delimiter = "," /\ scan = InitialScan /\ pc = "idle" /\ parsed = NoResult

schemaIdle ==
    /\ options = [tableName |-> <<>>, tableComment |-> <<>>,
                  useFirstRowAsHeader |-> TRUE, columns |-> <<>>]
    /\ outcome = NoOutcome /\ upload = NoFile /\ formData = NoFormData

InitSchema ==
    /\ options \in [tableName : TableNames, tableComment : Comments,
                    useFirstRowAsHeader : BOOLEAN, columns : ColumnLists]
    /\ outcome = NoOutcome
    /\ upload = NoFile
    /\ formData = NoFormData
    /\ csvIdle
    /\ inferIdle
    /\ pageIdle
    /\ sanitizeIdle

CreateImportSchema ==
    /\ outcome = NoOutcome
    /\ outcome' = createImportSchema(options)
    /\ UNCHANGED <<options, upload, formData, csvVars, inferVars, pageVars, sanitizeVars>>

BuildImportFormData ==
    /\ outcome.status = "returned"
    /\ formData = NoFormData
    /\ \E file \in Files :
        /\ upload' = file
        /\ formData' = buildImportFormData(outcome.value, file)
    /\ UNCHANGED <<options, outcome, csvVars, inferVars, pageVars, sanitizeVars>>

NextSchema == CreateImportSchema \/ BuildImportFormData

SpecSchema == InitSchema /\ [][NextSchema]_vars

-----------------------------------------------------------------------------
(* parseCsv as a state machine: the text is normalized and its delimiter   *)
(* detected, then the loop runs one iteration at a time, then the pending  *)
(* field and row are flushed and the trailing blank rows dropped.          *)

QuotedDelimiterExample == <<"\"", "a", ",", "b", "\"", ",", "c">>
EscapedQuoteExample ==
    <<"\"", "h", "e", " ", "s", "a", "i", "d", " ", "\"", "\"", "h", "i", "\"", "\"",
      "\"", ",", "2">>

CsvAlphabet == {"a", ",", ";", "\"", "\n", " "}
\* a,1 then two rows of two empty fields; a,1 then one such row then b,2
BlankTailExample == <<"a", ",", "1", "\n", ",", "\n", ",", "\n">>
InteriorBlankExample == <<"a", ",", "1", "\n", ",", "\n", "b", ",", "2">>

CsvContents ==
    Strings(CsvAlphabet, MaxContentLen)
        \cup {QuotedDelimiterExample, EscapedQuoteExample, BlankTailExample,
              InteriorBlankExample}

\* up to SampleLines empty lines, then a short text over every candidate delimiter
DetectAlphabet == {"a", ",", ";", "\t", "|", "\n", "\r"}
DetectContents ==
    {[i \in 1..n |-> "\n"] \o s :
        n \in {0, SampleLines - 1, SampleLines}, s \in Strings(DetectAlphabet, MaxDetectLen)}

InitCsv ==
    /\ content \in CsvContents
    /\ maxRows \in (1..MaxMaxRows) \cup {DefaultMaxRows}
    /\ normalized = <<>> /\ delimiter = "," /\ scan = InitialScan
    /\ pc = "start" /\ parsed = NoResult
    /\ schemaIdle
    /\ inferIdle
    /\ pageIdle
    /\ sanitizeIdle

InitDetect ==
    /\ content \in DetectContents
    /\ maxRows = DefaultMaxRows
    /\ normalized = <<>> /\ delimiter = "," /\ scan = InitialScan
    /\ pc = "start" /\ parsed = NoResult
    /\ schemaIdle
    /\ inferIdle
    /\ pageIdle
    /\ sanitizeIdle

\* csv.ts 15-22
Start ==
    /\ pc = "start"
    /\ normalized' = normalizeLineEndings(content)
    /\ delimiter' = detectDelimiter(normalized')
    /\ scan' = InitialScan
    /\ pc' = "scan"
    /\ UNCHANGED <<content, maxRows, parsed, schemaVars, inferVars, pageVars, sanitizeVars>>

\* one iteration of the loop
ScanStep ==
    /\ pc = "scan"
    /\ ~scanOver(normalized, scan)
    /\ scan' = scanStep(normalized, delimiter, maxRows, scan)
    /\ UNCHANGED <<content, maxRows, normalized, delimiter, pc, parsed, schemaVars, inferVars, pageVars, sanitizeVars>>

\* csv.ts 58-68
Finish ==
    /\ pc = "scan"
    /\ scanOver(normalized, scan)
    /\ scan' = flush(scan)
    /\ parsed' = resultOf(scan', delimiter)
    /\ pc' = "done"
    /\ UNCHANGED <<content, maxRows, normalized, delimiter, schemaVars, inferVars, pageVars, sanitizeVars>>

\* the loop and what follows it, in one step
ScanAll ==
    /\ pc = "scan"
    /\ scan' = flush(scanFrom(normalized, delimiter, maxRows, scan))
    /\ parsed' = resultOf(scan', delimiter)
    /\ pc' = "done"
    /\ UNCHANGED <<content, maxRows, normalized, delimiter, schemaVars, inferVars, pageVars, sanitizeVars>>

NextCsv == Start \/ ScanStep \/ Finish

SpecCsv == InitCsv /\ [][NextCsv]_vars

\* the contents without a space, which the loop treats like any other character
InitCsvLive ==
    /\ content \in {text \in CsvContents : \A i \in 1..Len(text) : text[i] # " "}
    /\ maxRows \in {1, DefaultMaxRows}
    /\ normalized = <<>> /\ delimiter = "," /\ scan = InitialScan
    /\ pc = "start" /\ parsed = NoResult
    /\ schemaIdle
    /\ inferIdle
    /\ pageIdle
    /\ sanitizeIdle

\* parseCsv is synchronous: once called it runs to its return
SpecCsvLive == InitCsvLive /\ [][NextCsv]_vars /\ WF_vars(NextCsv)

NextDetect == Start \/ ScanAll

SpecDetect == InitDetect /\ [][NextDetect]_vars

-----------------------------------------------------------------------------
(* inferPostgresType as a state machine: a list of samples is drawn, then   *)
(* the function is applied to it.                                          *)

InitInfer ==
    /\ sampleValues \in SampleInputs
    /\ inferred = NotInferred
    /\ schemaIdle
    /\ csvIdle
    /\ pageIdle
    /\ sanitizeIdle

InferPostgresType ==
    /\ inferred = NotInferred
    /\ inferred' = inferPostgresType(sampleValues)
    /\ UNCHANGED <<sampleValues, schemaVars, csvVars, pageVars, sanitizeVars>>

NextInfer == InferPostgresType

SpecInfer == InitInfer /\ [][NextInfer]_vars

-----------------------------------------------------------------------------
(* The column configuration of CreateDatasetPage as a state machine: one    *)
(* action per handler. The effect on [rawData, useFirstRowAsHeader] runs    *)
(* before the next event is handled, so it is part of the action that       *)
(* changed one of the two.                                                  *)

\* the texts of the files the user may select
FileTexts ==
    {<<"i", "d", ",", "n", "\n", "1">>,
     <<"n", "\n", "t", "r", "u", "e">>,
     <<"x", " ", "y", "\n", "7">>,
     <<>>}

\* parseCsv(text).rows of each of them
ParsedRows == [text \in FileTexts |-> parseCsv(text, DefaultMaxRows).rows]

\* what the user may type into a name input, choose as a type, type as a comment
NameInputs == {<<>>, <<"n">>, <<" ", "X">>}
TypeChoices == {<<"text">>, <<"integer">>, <<"boolean">>}
CommentInputs == {<<>>, <<"c">>}

\* CreateDatasetPage.tsx 74-81: the effect
rebuilt(rows, useHeader, previousColumns) ==
    IF rows = <<>> THEN <<>> ELSE buildColumns(rows, useHeader, previousColumns)

\* current.map((item) => item.id === column.id ? changed : item)
mapColumn(current, i, changed) == [k \in 1..Len(current) |-> IF k = i THEN changed ELSE current[k]]

InitPage ==
    /\ pageIdle
    /\ sanitizeIdle
    /\ schemaIdle
    /\ csvIdle
    /\ inferIdle

\* handleFileChange once the text of the file is read (the file input is
\* disabled until then), CreateDatasetPage.tsx 94-97, and the effect
SelectFile ==
    \E text \in FileTexts :
        /\ rawData' = ParsedRows[text]
        /\ columnConfigs' = rebuilt(rawData', headerSwitch, columnConfigs)
        /\ lastEvent' = "handleFileChange"
        /\ UNCHANGED <<headerSwitch, schemaVars, csvVars, inferVars, sanitizeVars>>

\* handleFileChange when reading the file fails, CreateDatasetPage.tsx 102-106
ReadFails ==
    /\ rawData' = <<>>
    /\ columnConfigs' = <<>>
    /\ lastEvent' = "readError"
    /\ UNCHANGED <<headerSwitch, schemaVars, csvVars, inferVars, sanitizeVars>>

\* clearFile, CreateDatasetPage.tsx 115-122
ClearFile ==
    /\ rawData' = <<>>
    /\ columnConfigs' = <<>>
    /\ lastEvent' = "clearFile"
    /\ UNCHANGED <<headerSwitch, schemaVars, csvVars, inferVars, sanitizeVars>>

\* the switch, CreateDatasetPage.tsx 255, and the effect
ToggleHeader ==
    /\ headerSwitch' = ~headerSwitch
    /\ columnConfigs' = rebuilt(rawData, headerSwitch', columnConfigs)
    /\ lastEvent' = "toggleHeader"
    /\ UNCHANGED <<rawData, schemaVars, csvVars, inferVars, sanitizeVars>>

\* the include checkbox, CreateDatasetPage.tsx 302-312
ToggleInclude ==
    \E i \in 1..Len(columnConfigs) :
        /\ columnConfigs' = mapColumn(columnConfigs, i,
               [columnConfigs[i] EXCEPT !.include = ~columnConfigs[i].include])
        /\ lastEvent' = "include"
        /\ UNCHANGED <<rawData, headerSwitch, schemaVars, csvVars, inferVars, sanitizeVars>>

EditNameAlwaysDirty ==
    \E i \in 1..Len(columnConfigs), typed \in NameInputs :
        /\ columnConfigs[i].include
        /\ columnConfigs' = mapColumn(columnConfigs, i,
               [columnConfigs[i] EXCEPT
                   !.tableColumnName = toLowerCase(trim(typed)),
                   !.isNameDirty = TRUE])
        /\ lastEvent' = "name"
        /\ UNCHANGED <<rawData, headerSwitch, schemaVars, csvVars, inferVars, sanitizeVars>>

\* the name input, enabled while the column is included, CreateDatasetPage.tsx 321-337
EditName ==
    \E i \in 1..Len(columnConfigs), typed \in NameInputs :
        LET value == toLowerCase(trim(typed))
        IN  /\ columnConfigs[i].include
            /\ columnConfigs' = mapColumn(columnConfigs, i,
                   [columnConfigs[i] EXCEPT
                       !.tableColumnName = value,
                       !.isNameDirty = value # columnConfigs[i].autoColumnName])
            /\ lastEvent' = "name"
            /\ UNCHANGED <<rawData, headerSwitch, schemaVars, csvVars, inferVars, sanitizeVars>>

\* the type select, enabled while the column is included, CreateDatasetPage.tsx 351-366
EditType ==
    \E i \in 1..Len(columnConfigs), value \in TypeChoices :
        /\ columnConfigs[i].include
        /\ columnConfigs' = mapColumn(columnConfigs, i,
               [columnConfigs[i] EXCEPT
                   !.dataType = value,
                   !.isTypeDirty = value # columnConfigs[i].autoType])
        /\ lastEvent' = "type"
        /\ UNCHANGED <<rawData, headerSwitch, schemaVars, csvVars, inferVars, sanitizeVars>>

\* the comment textarea, enabled while the column is included, CreateDatasetPage.tsx 386-398
EditComment ==
    \E i \in 1..Len(columnConfigs), value \in CommentInputs :
        /\ columnConfigs[i].include
        /\ columnConfigs' = mapColumn(columnConfigs, i,
               [columnConfigs[i] EXCEPT !.comment = value])
        /\ lastEvent' = "comment"
        /\ UNCHANGED <<rawData, headerSwitch, schemaVars, csvVars, inferVars, sanitizeVars>>

NextPage ==
    \/ SelectFile \/ ReadFails \/ ClearFile \/ ToggleHeader
    \/ ToggleInclude \/ EditName \/ EditType \/ EditComment

SpecPage == InitPage /\ [][NextPage]_vars

-----------------------------------------------------------------------------
(* The identifier sanitizer and validator as a state machine: a raw name   *)
(* and a fallback are drawn; sanitizeIdentifier is applied to them and     *)
(* then to its own result; getIdentifierError is applied to the raw name   *)
(* (as the page does with what the user typed) and to the sanitized one.   *)

\* names longer than the short ones enumerated below
LongName ==
    [OrderCount |-> <<"O", "r", "d", "e", "r", " ", "C", "o", "u", "n", "t", " ", "#", "1">>,
     DigitFirst |-> <<"1", "2", "3", "a", "b", "c">>,
     AtLimit |-> Repeat("a", IdentifierMax),
     OverLimit |-> Repeat("a", IdentifierMax + 1),
     OverLimitInvalid |-> Repeat("a", IdentifierMax) \o <<"#">>,
     DigitsAtLimit |-> Repeat("1", IdentifierMax),
     BreakAtLimit |-> Repeat("a", IdentifierMax - 1) \o <<" ", "b">>,
     BreakBeforeLimit |-> Repeat("a", IdentifierMax - 2) \o <<" ", "b", "c">>]

RawNames ==
    Strings({"a", "A", "1", "_", " ", "#"}, MaxRawLen)
        \cup {LongName[k] : k \in DOMAIN LongName}

InitSanitize ==
    /\ rawName \in RawNames
    /\ rawFallback \in {<<>>, <<"t", "a", "b", "l", "e">>, <<"#">>, <<"1">>}
    /\ identifier = NoOutcome /\ again = NoOutcome
    /\ nameError = NoOutcome /\ identifierError = NoOutcome
    /\ schemaIdle
    /\ csvIdle
    /\ inferIdle
    /\ pageIdle

SanitizeIdentifier ==
    /\ identifier = NoOutcome
    /\ identifier' = Return(sanitizeIdentifier(rawName, rawFallback))
    /\ UNCHANGED <<rawName, rawFallback, again, nameError, identifierError,
                   schemaVars, csvVars, inferVars, pageVars>>

SanitizeAgain ==
    /\ identifier # NoOutcome /\ again = NoOutcome
    /\ again' = Return(sanitizeIdentifier(identifier.value, rawFallback))
    /\ UNCHANGED <<rawName, rawFallback, identifier, nameError, identifierError,
                   schemaVars, csvVars, inferVars, pageVars>>

\* CreateDatasetPage.tsx 55, 292: the name as typed is validated
ValidateName ==
    /\ nameError = NoOutcome
    /\ nameError' = Return(getIdentifierError(rawName))
    /\ UNCHANGED <<rawName, rawFallback, identifier, again, identifierError,
                   schemaVars, csvVars, inferVars, pageVars>>

\* CreateDatasetPage.tsx 99-101, 55: the suggested name is validated
ValidateIdentifier ==
    /\ identifier # NoOutcome /\ identifierError = NoOutcome
    /\ identifierError' = Return(getIdentifierError(identifier.value))
    /\ UNCHANGED <<rawName, rawFallback, identifier, again, nameError,
                   schemaVars, csvVars, inferVars, pageVars>>

NextSanitize ==
    \/ SanitizeIdentifier
    \/ SanitizeAgain
    \/ ValidateName
    \/ ValidateIdentifier

SpecSanitize == InitSanitize /\ [][NextSanitize]_vars

-----------------------------------------------------------------------------
(* What the claims speak of *)

\* t is s without its leading and trailing white space, and otherwise s
IsTrimOf(t, s) ==
    \E a, b \in 0..Len(s) :
        /\ a + b <= Len(s)
        /\ t = SubSeq(s, a + 1, Len(s) - b)
        /\ \A i \in 1..a : s[i] \in WhiteSpace
        /\ \A i \in (Len(s) - b + 1)..Len(s) : s[i] \in WhiteSpace
        /\ t = <<>> \/ (t[1] \notin WhiteSpace /\ t[Len(t)] \notin WhiteSpace)

BlankAfterTrim(s) == \A i \in 1..Len(s) : s[i] \in WhiteSpace

\* the positions of the input columns with include = true
Included(columns) == {i \in 1..Len(columns) : columns[i].include}

\* the position of the k-th included input column
KthIncluded(columns, k) ==
    CHOOSE i \in Included(columns) :
        Cardinality({j \in Included(columns) : j <= i}) = k

Returned == outcome.status = "returned"

\* C1: createImportSchema raises the table-name-required error for every input
\* whose tableName is empty after trimming, whatever the columns are; where it
\* returns, TableName is the input tableName trimmed and otherwise unchanged.
C1_TableNameRequiredElseTrimmed ==
    outcome # NoOutcome =>
        /\ BlankAfterTrim(options.tableName) => outcome = Throw(TableNameRequired)
        /\ Returned => IsTrimOf(outcome.value.TableName, options.tableName)

C1_Witness ==
    /\ outcome = Throw(TableNameRequired)
    /\ options.tableName # <<>>
    /\ options.columns # <<>>
    /\ Included(options.columns) = {}

\* C2: when the trimmed tableName is non-empty, createImportSchema raises the
\* at-least-one-column error exactly when no column has include = true (an empty
\* column list included), and returns a schema with a non-empty Columns otherwise.
C2_ColumnRequiredIffNoneIncluded ==
    (outcome # NoOutcome /\ ~BlankAfterTrim(options.tableName)) =>
        /\ outcome = Throw(ColumnRequired) <=> Included(options.columns) = {}
        /\ Included(options.columns) # {} =>
              (Returned /\ Len(outcome.value.Columns) > 0)

C2_Witness ==
    /\ outcome = Throw(ColumnRequired)
    /\ options.columns # <<>>

\* C3: where createImportSchema returns, Columns is exactly the subsequence of
\* the input columns with include = true, in input order, each entry's Name and
\* DbType being that column's tableColumnName and dataType verbatim.
C3_ColumnsAreIncludedInOrder ==
    Returned =>
        LET out == outcome.value.Columns
        IN  /\ Len(out) = Cardinality(Included(options.columns))
            /\ \A k \in 1..Len(out) :
                 LET column == options.columns[KthIncluded(options.columns, k)]
                 IN  /\ out[k].Name = column.tableColumnName
                     /\ out[k].DbType = column.dataType

C3_Witness ==
    /\ Returned
    /\ Len(options.columns) = 2
    /\ ~options.columns[1].include
    /\ outcome.value.Columns[1].Name = <<" ", "1", "\"">>

\* C4: in every schema createImportSchema returns, FirstRowIsHeader is the
\* number 1 when useFirstRowAsHeader is true and the number 0 when it is false.
C4_FirstRowIsHeaderIsZeroOrOne ==
    Returned =>
        outcome.value.FirstRowIsHeader =
            JsNumber(IF options.useFirstRowAsHeader THEN <<"1">> ELSE <<"0">>)

\* C5: in every schema createImportSchema returns, TableComment and each
\* column's Comment is present exactly when the input comment is non-empty after
\* trimming, and then equals the trimmed input comment.
C5_CommentPresentIffNonBlank ==
    Returned =>
        LET schema == outcome.value
        IN  /\ "TableComment" \in DOMAIN schema <=> ~BlankAfterTrim(options.tableComment)
            /\ "TableComment" \in DOMAIN schema =>
                  IsTrimOf(schema.TableComment, options.tableComment)
            /\ \A k \in 1..Len(schema.Columns) :
                 LET column == options.columns[KthIncluded(options.columns, k)]
                 IN  /\ "Comment" \in DOMAIN schema.Columns[k]
                           <=> ~BlankAfterTrim(column.comment)
                     /\ "Comment" \in DOMAIN schema.Columns[k] =>
                           IsTrimOf(schema.Columns[k].Comment, column.comment)

C5_Witness ==
    /\ Returned
    /\ options.tableComment = <<" ", "c", " ">>
    /\ Len(options.columns) = 2
    /\ options.columns[1].include /\ options.columns[1].comment = <<" ">>
    /\ options.columns[2].include /\ options.columns[2].comment = <<" ", "c", " ">>

\* C6: buildImportFormData returns a payload with exactly two parts named schema
\* and file: the schema part is a file/blob part (not a plain string field) whose
\* text parses as JSON to a value equal to the schema, and the file part is the
\* original file under its original filename.
C6_SchemaPartIsBlobAndFilePartIsFile ==
    formData # NoFormData =>
        /\ Len(formData) = 2
        /\ {formData[i].name : i \in 1..Len(formData)} = {"schema", "file"}
        /\ formDataGet(formData, "schema").kind = "file"
        /\ JSONparse(formDataGet(formData, "schema").value) = Return(outcome.value)
        /\ formDataGet(formData, "file").kind = "file"
        /\ formDataGet(formData, "file").value = upload.bytes
        /\ formDataGet(formData, "file").filename = upload.name

\* the scan loop is about to read the character at scan.index
Reading == pc = "scan" /\ ~scanOver(normalized, scan)

\* C7: a delimiter or a newline met inside quote mode never ends a field or a
\* row: it is appended to the current field, and the input "a,b",c gives the
\* single row ["a,b", "c"] with delimiter comma.
C7_QuotedSeparatorsStayInField ==
    /\ [][(Reading /\ scan.insideQuotes /\ normalized[scan.index] \in {delimiter, "\n"})
            => scan' = [scan EXCEPT !.currentField = Append(@, normalized[scan.index]),
                                    !.index = @ + 1]]_vars
    /\ []((pc = "done" /\ content = QuotedDelimiterExample)
            => parsed = [rows |-> << << <<"a", ",", "b">>, <<"c">> >> >>, delimiter |-> ","])

C7_Witness ==
    /\ pc = "done"
    /\ content = QuotedDelimiterExample
    /\ parsed.rows[1][1] = <<"a", ",", "b">>

\* C8: a double quote met outside quote mode opens quote mode and is not
\* emitted; inside quote mode two consecutive double quotes emit one literal
\* double quote and leave quote mode on, and a double quote not followed by
\* another closes quote mode and is not emitted; the input "he said ""hi""",2
\* gives the row [he said "hi", 2].
C8_QuoteHandling ==
    /\ [][(Reading /\ normalized[scan.index] = "\"") =>
            LET escaped == /\ scan.index + 1 <= Len(normalized)
                           /\ normalized[scan.index + 1] = "\""
            IN  /\ ~scan.insideQuotes =>
                      scan' = [scan EXCEPT !.insideQuotes = TRUE, !.index = @ + 1]
                /\ (scan.insideQuotes /\ escaped) =>
                      scan' = [scan EXCEPT !.currentField = Append(@, "\""),
                                           !.index = @ + 2]
                /\ (scan.insideQuotes /\ ~escaped) =>
                      scan' = [scan EXCEPT !.insideQuotes = FALSE, !.index = @ + 1]]_vars
    /\ []((pc = "done" /\ content = EscapedQuoteExample)
            => parsed.rows = << << <<"h", "e", " ", "s", "a", "i", "d", " ", "\"", "h", "i", "\"">>,
                                  <<"2">> >> >>)

C8_Witness ==
    /\ pc = "done"
    /\ content = EscapedQuoteExample
    /\ parsed.rows[1][1] = <<"h", "e", " ", "s", "a", "i", "d", " ", "\"", "h", "i", "\"">>

\* the line (from 1) the character at position i of the normalized text is on
LineOf(i) == 1 + Cardinality({j \in 1..(i - 1) : normalized[j] = "\n"})

\* the positions of the characters of the first 10 lines, newlines left out
Sampled == {i \in 1..Len(normalized) : LineOf(i) <= SampleLines /\ normalized[i] # "\n"}

Candidates == {CANDIDATE_DELIMITERS[k] : k \in 1..Len(CANDIDATE_DELIMITERS)}

\* the split-length score of candidate d: each non-empty sampled line counts one
\* more than the times d occurs in it
Score(d) ==
    Cardinality({LineOf(i) : i \in Sampled}) + Cardinality({i \in Sampled : normalized[i] = d})

Detected == pc \in {"scan", "done"}

\* d occurs in the first 10 lines and no other candidate does
OnlyCandidate(d) ==
    /\ \E i \in Sampled : normalized[i] = d
    /\ \A i \in Sampled : normalized[i] \notin Candidates \ {d}

\* C9: for every candidate d, if among the first 10 lines of the normalized
\* content some line contains d and no line contains another candidate, parseCsv
\* reports d as the delimiter.
C9_SoleCandidateIsDetected ==
    \A d \in Candidates :
        (Detected /\ OnlyCandidate(d)) =>
            /\ delimiter = d
            /\ pc = "done" => parsed.delimiter = d

C9_Witness ==
    /\ pc = "done"
    /\ OnlyCandidate("|")
    /\ parsed.delimiter = "|"
    /\ \E i \in 1..Len(normalized) : i \notin Sampled /\ normalized[i] = ","

\* C10: detectDelimiter returns one of the four candidates, one with the highest
\* split-length score over the non-empty lines among the first 10; among several
\* with the highest score it returns the earliest in the order comma, semicolon,
\* tab, pipe, and when every sampled line is empty it returns comma.
C10_HighestScoreEarliestWins ==
    Detected =>
        /\ delimiter \in Candidates
        /\ \A k \in 1..Len(CANDIDATE_DELIMITERS) :
             /\ Score(CANDIDATE_DELIMITERS[k]) <= Score(delimiter)
             /\ Score(CANDIDATE_DELIMITERS[k]) = Score(delimiter) =>
                   \E m \in 1..k : CANDIDATE_DELIMITERS[m] = delimiter
        /\ Sampled = {} => delimiter = ","

C10_Witness ==
    /\ Detected
    /\ delimiter = ";"
    /\ Score("|") = Score(";")
    /\ Score(",") < Score(";")

\* C11: for every content and maxRows >= 1 the scan stops as soon as maxRows
\* rows have been emitted: the result holds at most maxRows rows, the flush after
\* the loop adds nothing after a maxRows break, and nothing after the newline
\* that ended the maxRows-th row reaches the result (the result is that of the
\* text cut after that newline).
C11_StopsAtMaxRows ==
    /\ [](Len(scan.rows) <= maxRows /\ Len(parsed.rows) <= maxRows)
    /\ []((pc = "scan" /\ Len(scan.rows) >= maxRows) => scan.broke)
    /\ [][(pc = "scan" /\ scan.broke) => scan'.rows = scan.rows]_vars
    /\ []((pc = "done" /\ scan.broke) =>
            parsed = resultOf(flush(scanFrom(SubSeq(normalized, 1, scan.index), delimiter,
                                             maxRows, InitialScan)), delimiter))

C11_Witness ==
    /\ pc = "done"
    /\ scan.broke
    /\ scan.index < Len(normalized)
    /\ normalized[Len(normalized)] = "a"
    /\ Len(parsed.rows) = maxRows

\* every field of the row is empty after trimming
BlankRow(row) == \A i \in 1..Len(row) : BlankAfterTrim(row[i])

\* C12: the rows parseCsv returns are the tokenized rows with the maximal suffix
\* of wholly-blank rows removed: a prefix of the tokenized rows, every removed row
\* blank, the result empty or ending in a non-blank row (so a blank row followed
\* by a non-blank one is kept); a,1 followed by two rows of empty fields becomes
\* [[a,1]], and a,1 / empty fields / b,2 is unchanged.
C12_TrailingBlankRowsRemoved ==
    pc = "done" =>
        /\ Len(parsed.rows) <= Len(scan.rows)
        /\ parsed.rows = SubSeq(scan.rows, 1, Len(parsed.rows))
        /\ \A k \in (Len(parsed.rows) + 1)..Len(scan.rows) : BlankRow(scan.rows[k])
        /\ parsed.rows = <<>> \/ ~BlankRow(parsed.rows[Len(parsed.rows)])
        /\ (content = BlankTailExample /\ maxRows = DefaultMaxRows) =>
              /\ scan.rows = << << <<"a">>, <<"1">> >>, << <<>>, <<>> >>, << <<>>, <<>> >> >>
              /\ parsed.rows = << << <<"a">>, <<"1">> >> >>
        /\ (content = InteriorBlankExample /\ maxRows = DefaultMaxRows) =>
              parsed.rows = << << <<"a">>, <<"1">> >>, << <<>>, <<>> >>, << <<"b">>, <<"2">> >> >>

C12_Witness ==
    /\ pc = "done"
    /\ Len(scan.rows) = 2
    /\ parsed.rows = << << <<"a">> >> >>
    /\ scan.rows[2] = << <<" ">>, <<>> >>

\* s ends with t
EndsWith(s, t) == Len(t) <= Len(s) /\ SubSeq(s, Len(s) - Len(t) + 1, Len(s)) = t

\* C13: parseCsv is total: for every input, one with an unterminated or stray
\* double quote included, every iteration of the loop moves the index forward or
\* leaves the loop, and a result is returned; when the text ends inside a quote,
\* what follows the opening quote is the end of one field, which the flush after
\* the loop puts into the rows.
C13_TotalAndUnterminatedQuoteFlushed ==
    /\ <>(pc = "done")
    /\ [][Reading => (scan'.index > scan.index \/ scan'.broke)]_vars
    /\ []((pc = "done" /\ scan.insideQuotes) =>
            \A q \in 1..(Len(normalized) - 1) :
                (/\ normalized[q] = "\""
                 /\ \A j \in (q + 1)..Len(normalized) : normalized[j] # "\"") =>
                    /\ scan.rows # <<>>
                    /\ LET row == scan.rows[Len(scan.rows)]
                       IN  EndsWith(row[Len(row)], SubSeq(normalized, q + 1, Len(normalized))))

C13_Witness ==
    /\ pc = "done"
    /\ scan.insideQuotes
    /\ normalized = <<"a", "\"", ",", "\n">>
    /\ scan.rows = << << <<"a", ",", "\n">> >> >>

\* a non-blank string without the white space around it
CoreOf(s) ==
    SubSeq(s, CHOOSE i \in 1..Len(s) : s[i] \notin WhiteSpace,
              CHOOSE i \in 1..Len(s) :
                  s[i] \notin WhiteSpace /\ \A j \in (i + 1)..Len(s) : s[j] \in WhiteSpace)

\* the first n non-blank strings of a list, each without the white space around it
RECURSIVE FirstNonBlank(_, _)
FirstNonBlank(list, n) ==
    IF list = <<>> \/ n = 0 THEN <<>>
    ELSE IF BlankAfterTrim(Head(list)) THEN FirstNonBlank(Tail(list), n)
    ELSE <<CoreOf(Head(list))>> \o FirstNonBlank(Tail(list), n - 1)

\* the surviving samples
Survivors == FirstNonBlank(sampleValues, SampleCap)

Inferred == inferred # NotInferred

\* C14: inferPostgresType returns date for every sample list whose surviving
\* samples all have the plain form YYYY-MM-DD, e.g. 2024-01-01, 2024-01-02.
C14_PlainDatesAreDate ==
    LET survivors == Survivors
    IN  (/\ Inferred /\ survivors # <<>>
         /\ \A k \in 1..Len(survivors) : looksLikeDate(survivors[k]))
            => inferred = <<"date">>

\* the value of a short string of digits
RECURSIVE ValueOf(_)
ValueOf(digits) ==
    IF digits = <<>> THEN 0
    ELSE 10 * ValueOf(SubSeq(digits, 1, Len(digits) - 1)) + DigitValue[digits[Len(digits)]]

\* the magnitude of a signed string of at most 14 digits is at most 2147483647
\* (21474 * 100000 + 83647), compared in two halves
AtMostInt32Max(value) ==
    LET digits == IF value[1] \in {"+", "-"} THEN Tail(value) ELSE value
        cut == IF Len(digits) > 5 THEN Len(digits) - 5 ELSE 0
        high == ValueOf(SubSeq(digits, 1, cut))
        low == ValueOf(SubSeq(digits, cut + 1, Len(digits)))
    IN  high < 21474 \/ (high = 21474 /\ low <= 83647)

IsBooleanToken(value) == toLowerCase(value) \in BOOLEAN_VALUES

\* C15: when every surviving sample is an optional sign followed by digits and
\* they are not all boolean tokens, the type is integer when the largest
\* absolute value is at most 2147483647 and bigint otherwise: 1, 2, 300 is
\* integer, 2147483648 is bigint, -2147483648 is bigint.
C15_IntegerUnlessBeyondInt32 ==
    /\ LET survivors == Survivors
       IN  (/\ Inferred /\ survivors # <<>>
            /\ \A k \in 1..Len(survivors) : looksLikeInteger(survivors[k])
            /\ \E k \in 1..Len(survivors) : ~IsBooleanToken(survivors[k]))
              => inferred = IF \A k \in 1..Len(survivors) : AtMostInt32Max(survivors[k])
                            THEN <<"integer">> ELSE <<"bigint">>
    /\ (Inferred /\ sampleValues = Example.Integer) => inferred = <<"integer">>
    /\ (Inferred /\ sampleValues = <<Sample.MinBigint>>) => inferred = <<"bigint">>
    /\ (Inferred /\ sampleValues = <<Sample.NegativeBigint>>) => inferred = <<"bigint">>

C15_Witness ==
    /\ sampleValues = <<Sample.MaxInteger, Sample.NegativeBigint>>
    /\ inferred = <<"bigint">>

\* the rules in the order of the cascade, and the types each one gives
RuleHolds(k, value) ==
    CASE k = 1 -> looksLikeBoolean(value)
      [] k = 2 -> looksLikeInteger(value)
      [] k = 3 -> looksLikeNumeric(value)
      [] k = 4 -> looksLikeTimestamp(value)
      [] k = 5 -> looksLikeDate(value)
      [] k = 6 -> looksLikeUuid(value)
      [] k = 7 -> looksLikeJson(value)
      [] k = 8 -> Len(value) <= VarcharMax
      [] k = 9 -> TRUE

RuleTypes ==
    <<{<<"boolean">>}, {<<"integer">>, <<"bigint">>}, {<<"numeric">>}, {<<"timestamp">>},
      {<<"date">>}, {<<"uuid">>}, {<<"jsonb">>}, {<<"varchar">>}, {<<"text">>}>>

\* the rules that hold for every string of a list
RulesHoldingForAll(list) ==
    {k \in 1..9 : \A i \in 1..Len(list) : RuleHolds(k, list[i])}

\* C16: the rules are tried in the order boolean, integer/bigint, numeric,
\* timestamp, date, uuid, jsonb, varchar, text, and the first one that holds for
\* every surviving sample gives the type; samples that are all boolean tokens,
\* whatever their case, and lists of only 1 and 0, give boolean (true, false,
\* Yes is boolean).
C16_FirstRuleInOrderWins ==
    LET survivors == Survivors
        holding == RulesHoldingForAll(survivors)
    IN  (Inferred /\ survivors # <<>>) =>
            /\ \E k \in holding :
                  /\ \A j \in holding : k <= j
                  /\ inferred \in RuleTypes[k]
            /\ (\A i \in 1..Len(survivors) : IsBooleanToken(survivors[i]))
                  => inferred = <<"boolean">>
            /\ (\A i \in 1..Len(survivors) : survivors[i] \in {<<"1">>, <<"0">>})
                  => inferred = <<"boolean">>
            /\ sampleValues = Example.Boolean => inferred = <<"boolean">>

C16_Witness ==
    /\ sampleValues = <<Sample.One, Sample.Zero>>
    /\ inferred = <<"boolean">>

\* C17: with a surviving sample and none of the boolean, integer, numeric,
\* timestamp, date, uuid and jsonb rules holding for all of them, the type is
\* varchar when every surviving sample has length at most 255 and text
\* otherwise; "not a number", "2" is varchar.
C17_VarcharUpTo255ElseText ==
    /\ LET survivors == Survivors
       IN  (/\ Inferred /\ survivors # <<>>
            /\ RulesHoldingForAll(survivors) \cap (1..7) = {})
              => inferred = IF \A i \in 1..Len(survivors) : Len(survivors[i]) <= 255
                            THEN <<"varchar">> ELSE <<"text">>
    /\ (Inferred /\ sampleValues = Example.Varchar) => inferred = <<"varchar">>

C17_Witness ==
    /\ sampleValues = <<Sample.OfVarcharMax, Sample.OverVarcharMax>>
    /\ inferred = <<"text">>

\* C18: only the first 25 samples that are non-empty after trimming decide:
\* the type is that of the list of those samples alone, so neither a blank
\* sample nor a sample after the 25th surviving one has any influence, and
\* without a surviving sample the type is text.
C18_OnlyFirst25SurvivorsDecide ==
    Inferred =>
        /\ inferred = inferPostgresType(Survivors)
        /\ Survivors = <<>> => inferred = <<"text">>

C18_Witness ==
    /\ Len(sampleValues) = SampleCap + 2
    /\ sampleValues[1] = <<"7">>
    /\ sampleValues[SampleCap + 1] = Sample.Blank
    /\ sampleValues[SampleCap + 2] = Sample.Words
    /\ inferred = <<"integer">>

\* C19: in every reachable state of the column configuration, after any
\* sequence of rebuilds and of edits of names and types, a column whose name
\* dirty flag is false has tableColumnName = autoColumnName, and a column whose
\* type dirty flag is false has dataType = autoType.
C19_CleanColumnsHoldAutoValues ==
    \A i \in 1..Len(columnConfigs) :
        /\ ~columnConfigs[i].isNameDirty
              => columnConfigs[i].tableColumnName = columnConfigs[i].autoColumnName
        /\ ~columnConfigs[i].isTypeDirty
              => columnConfigs[i].dataType = columnConfigs[i].autoType

C19_Witness ==
    /\ lastEvent = "toggleHeader"
    /\ ~headerSwitch
    /\ Len(columnConfigs) = 2
    /\ ~columnConfigs[1].isNameDirty /\ ~columnConfigs[1].isTypeDirty
    /\ columnConfigs[1].tableColumnName = <<"c", "o", "l", "u", "m", "n", "_", "1">>
    /\ columnConfigs[2].isNameDirty /\ columnConfigs[2].tableColumnName = <<"x">>
    /\ columnConfigs[2].isTypeDirty /\ columnConfigs[2].dataType = <<"boolean">>

\* the steps that end in a run of buildColumns
Rebuild == lastEvent' \in {"handleFileChange", "toggleHeader"} /\ rawData' # <<>>

\* C20: when a column has its name (its type) dirty flag set before a rebuild
\* and its position still exists after it, the flag is still set after the
\* rebuild and tableColumnName (dataType) is the user's value, whatever the new
\* automatic value; the include flag and the comment are carried over too.
C20_RebuildKeepsUserValues ==
    [][Rebuild =>
          \A i \in 1..Len(columnConfigs) :
              i <= Len(columnConfigs') =>
                  /\ columnConfigs[i].isNameDirty =>
                        /\ columnConfigs'[i].isNameDirty
                        /\ columnConfigs'[i].tableColumnName = columnConfigs[i].tableColumnName
                  /\ columnConfigs[i].isTypeDirty =>
                        /\ columnConfigs'[i].isTypeDirty
                        /\ columnConfigs'[i].dataType = columnConfigs[i].dataType
                  /\ columnConfigs'[i].include = columnConfigs[i].include
                  /\ columnConfigs'[i].comment = columnConfigs[i].comment]_vars

C20_Witness ==
    /\ lastEvent = "handleFileChange"
    /\ Len(columnConfigs) = 1
    /\ columnConfigs[1].autoColumnName = <<"x", "_", "y">>
    /\ columnConfigs[1].isNameDirty /\ columnConfigs[1].tableColumnName = <<>>
    /\ columnConfigs[1].autoType = <<"integer">>
    /\ columnConfigs[1].isTypeDirty /\ columnConfigs[1].dataType = <<"text">>
    /\ ~columnConfigs[1].include
    /\ columnConfigs[1].comment = <<"c">>

\* C21: recomputing the column configuration is idempotent: for every row
\* set, header flag and previous configuration prev,
\* buildColumns(rows, flag, buildColumns(rows, flag, prev)) equals
\* buildColumns(rows, flag, prev), so running the rebuild again on the same
\* inputs leaves the configuration unchanged.
C21_RebuildIsIdempotent ==
    /\ \A text \in FileTexts, flag \in BOOLEAN :
          ParsedRows[text] # <<>> =>
              LET once == buildColumns(ParsedRows[text], flag, columnConfigs)
              IN  buildColumns(ParsedRows[text], flag, once) = once
    /\ (lastEvent \in {"handleFileChange", "toggleHeader"} /\ rawData # <<>>)
          => buildColumns(rawData, headerSwitch, columnConfigs) = columnConfigs

C21_Witness ==
    /\ lastEvent = "toggleHeader"
    /\ headerSwitch
    /\ Len(columnConfigs) = 2
    /\ columnConfigs[1].isNameDirty /\ columnConfigs[1].tableColumnName = <<"n">>
    /\ columnConfigs[2].autoColumnName = <<"n">>
    /\ columnConfigs[2].isTypeDirty /\ ~columnConfigs[2].include
    /\ columnConfigs[2].comment = <<"c">>

\* the width of the widest row
Widest(rows) ==
    CHOOSE w \in {Len(rows[r]) : r \in 1..Len(rows)} :
        \A r \in 1..Len(rows) : Len(rows[r]) <= w

\* the identifier of position n (0..99): column-n in decimal
PositionId(n) ==
    <<"column-">> \o (IF n < 10 THEN <<>> ELSE <<CHOOSE c \in Digits : DigitValue[c] = n \div 10>>)
                  \o <<CHOOSE c \in Digits : DigitValue[c] = n % 10>>

\* C22: after every rebuild from a non-empty row set the configuration has
\* exactly one column per position 0..w-1, in position order and with the
\* pairwise distinct identifiers column-0..column-(w-1), where w is the largest
\* row width; a position absent from the previous configuration has include
\* true, both dirty flags false and an empty comment, previous columns at
\* positions from w on are dropped, and when the row set becomes empty the
\* configuration becomes empty.
C22_OneColumnPerPosition ==
    [][lastEvent' \in {"handleFileChange", "toggleHeader", "readError", "clearFile"} =>
          IF rawData' = <<>>
          THEN columnConfigs' = <<>>
          ELSE /\ Len(columnConfigs') = Widest(rawData')
               /\ \A k \in 1..Len(columnConfigs') :
                     /\ columnConfigs'[k].id = PositionId(k - 1)
                     /\ \A j \in 1..Len(columnConfigs') :
                           j # k => columnConfigs'[j].id # columnConfigs'[k].id
                     /\ k > Len(columnConfigs) =>
                           /\ columnConfigs'[k].include
                           /\ ~columnConfigs'[k].isNameDirty
                           /\ ~columnConfigs'[k].isTypeDirty
                           /\ columnConfigs'[k].comment = <<>>]_vars

C22_Witness ==
    /\ lastEvent = "handleFileChange"
    /\ Len(rawData) = 2 /\ Len(rawData[1]) = 2 /\ Len(rawData[2]) = 1
    /\ Len(columnConfigs) = 2
    /\ columnConfigs[1].isNameDirty /\ ~columnConfigs[1].include
    /\ columnConfigs[2].include /\ ~columnConfigs[2].isNameDirty
    /\ ~columnConfigs[2].isTypeDirty /\ columnConfigs[2].comment = <<>>

\* lowercase letters, and the characters an identifier may hold
LowerLetters == {LowerCaseOf[c] : c \in DOMAIN LowerCaseOf}
NameChars == LowerLetters \cup Digits \cup {"_"}

\* first character a lowercase letter or underscore, then only lowercase
\* letters, digits and underscores
WellFormed(s) ==
    /\ s # <<>>
    /\ s[1] \in LowerLetters \cup {"_"}
    /\ \A i \in 1..Len(s) : s[i] \in NameChars

\* C23: for every raw string and fallback, sanitizeIdentifier returns a string
\* that is non-empty, at most 63 characters long and of the identifier shape,
\* and getIdentifierError applied to it returns null.
C23_ResultIsValidIdentifier ==
    /\ identifier # NoOutcome =>
          /\ Len(identifier.value) \in 1..63
          /\ WellFormed(identifier.value)
    /\ identifierError # NoOutcome => identifierError.value = Null

C23_Witness ==
    /\ rawName = LongName.DigitsAtLimit
    /\ identifier # NoOutcome
    /\ Len(identifier.value) = 63 /\ identifier.value[1] = "_"
    /\ identifierError = Return(Null)

\* s with its letters in lower case
LowerCased(s) ==
    [i \in 1..Len(s) |-> IF s[i] \in DOMAIN LowerCaseOf THEN LowerCaseOf[s[i]] ELSE s[i]]

\* the length of the longest prefix of s made of lowercase letters and digits
WordLength(s) ==
    CHOOSE n \in 0..Len(s) :
        /\ \A i \in 1..n : s[i] \in LowerLetters \cup Digits
        /\ n < Len(s) => s[n + 1] \notin LowerLetters \cup Digits

\* the maximal runs of lowercase letters and digits of s, joined by one
\* underscore: what trimming, replacing white space and other characters by
\* underscores, collapsing and stripping underscores leave of a lowercased s
RECURSIVE JoinedWords(_)
JoinedWords(s) ==
    IF s = <<>> THEN <<>>
    ELSE IF WordLength(s) = 0 THEN JoinedWords(Tail(s))
    ELSE LET rest == JoinedWords(SubSeq(s, WordLength(s) + 1, Len(s)))
         IN  SubSeq(s, 1, WordLength(s)) \o (IF rest = <<>> THEN <<>> ELSE <<"_">> \o rest)

Cleaned(s) == JoinedWords(LowerCased(s))

\* an underscore before a leading digit, then the first 63 characters
PrefixedThenCut(s) ==
    LET prefixed == IF s # <<>> /\ s[1] \in Digits THEN <<"_">> \o s ELSE s
    IN  IF Len(prefixed) > 63 THEN SubSeq(prefixed, 1, 63) ELSE prefixed

\* C24: sanitizeIdentifier trims and lowercases, replaces white-space runs and
\* every character outside [a-z0-9_] by an underscore, collapses underscore
\* runs, strips leading and trailing underscores, then prepends an underscore
\* to a leading digit, then truncates to 63 characters; "Order Count #1" gives
\* order_count_1 and "123abc" gives _123abc.
C24_StepsInOrder ==
    identifier # NoOutcome =>
        /\ Cleaned(rawName) # <<>> =>
              identifier.value = PrefixedThenCut(Cleaned(rawName))
        /\ rawName = LongName.OrderCount =>
              identifier.value =
                  <<"o", "r", "d", "e", "r", "_", "c", "o", "u", "n", "t", "_", "1">>
        /\ rawName = LongName.DigitFirst =>
              identifier.value = <<"_", "1", "2", "3", "a", "b", "c">>

C24_Witness ==
    /\ rawName = LongName.OrderCount
    /\ identifier =
          Return(<<"o", "r", "d", "e", "r", "_", "c", "o", "u", "n", "t", "_", "1">>)

\* C25: when the raw input cleans to empty, sanitizeIdentifier returns the
\* sanitized fallback if there is one and the literal item when there is none or
\* when the fallback cleans to empty too; when the raw input cleans to a
\* non-empty string the fallback has no part in the result.
C25_FallbackOnlyWhenEmpty ==
    identifier # NoOutcome =>
        /\ (Cleaned(rawName) = <<>> /\ Cleaned(rawFallback) # <<>>) =>
              identifier.value = PrefixedThenCut(Cleaned(rawFallback))
        /\ (Cleaned(rawName) = <<>> /\ Cleaned(rawFallback) = <<>>) =>
              identifier.value = <<"i", "t", "e", "m">>
        /\ Cleaned(rawName) # <<>> =>
              identifier.value = sanitizeIdentifier(rawName, <<>>)

C25_Witness ==
    /\ rawName = <<" ", "#", "_">>
    /\ rawFallback = <<"1">>
    /\ identifier = Return(<<"_", "1">>)

\* C26: getIdentifierError checks empty, then longer than 63, then the shape,
\* and reports the first that applies: the empty string gets the name-required
\* error, every string longer than 63 the too-long error whatever it holds,
\* every other ill-formed string the invalid-characters error, and null is
\* returned exactly for well-formed strings of 1 to 63 characters; its argument
\* is left as it was.
C26_FirstRuleReported ==
    nameError # NoOutcome =>
        /\ nameError.status = "returned"
        /\ rawName = <<>> => nameError.value = ErrorMessage.required
        /\ Len(rawName) > 63 => nameError.value = ErrorMessage.tooLong
        /\ (rawName # <<>> /\ Len(rawName) <= 63 /\ ~WellFormed(rawName)) =>
              nameError.value = ErrorMessage.invalid
        /\ nameError.value = Null <=>
              (rawName # <<>> /\ Len(rawName) <= 63 /\ WellFormed(rawName))

C26_Witness ==
    /\ rawName = LongName.OverLimitInvalid
    /\ nameError = Return(ErrorMessage.tooLong)

\* C27: sanitizeIdentifier applied to its own result returns that result
\* unchanged, whatever the raw string and the fallback, also when the result
\* was cut at 63 characters or given a leading underscore.
C27_SanitizeIsIdempotent ==
    again # NoOutcome => again.value = identifier.value

\* C28 as claimed: in every reachable state a column's name dirty flag is true
\* exactly when its tableColumnName differs from its autoColumnName, and its
\* type dirty flag exactly when its dataType differs from its autoType.
C28_DirtyExactlyWhenDifferent ==
    \A i \in 1..Len(columnConfigs) :
        /\ columnConfigs[i].isNameDirty
              <=> columnConfigs[i].tableColumnName # columnConfigs[i].autoColumnName
        /\ columnConfigs[i].isTypeDirty
              <=> columnConfigs[i].dataType # columnConfigs[i].autoType

\* C28 as amended: a column whose dirty flag is false holds the automatic
\* value; an edit of a name (a type) leaves the flag of the edited column true
\* exactly when the new value differs from the automatic one; a rebuild keeps
\* the flags of the positions that remain as they were, also when the new
\* automatic value coincides with the user's value.
C28_DirtySetByEditsKeptByRebuilds ==
    [][/\ \A i \in 1..Len(columnConfigs') :
              /\ ~columnConfigs'[i].isNameDirty
                    => columnConfigs'[i].tableColumnName = columnConfigs'[i].autoColumnName
              /\ ~columnConfigs'[i].isTypeDirty
                    => columnConfigs'[i].dataType = columnConfigs'[i].autoType
       /\ lastEvent' = "name" =>
              \A i \in 1..Len(columnConfigs') :
                  columnConfigs'[i] # columnConfigs[i] =>
                      (columnConfigs'[i].isNameDirty
                          <=> columnConfigs'[i].tableColumnName # columnConfigs'[i].autoColumnName)
       /\ lastEvent' = "type" =>
              \A i \in 1..Len(columnConfigs') :
                  columnConfigs'[i] # columnConfigs[i] =>
                      (columnConfigs'[i].isTypeDirty
                          <=> columnConfigs'[i].dataType # columnConfigs'[i].autoType)
       /\ Rebuild =>
              \A i \in 1..Len(columnConfigs) :
                  i <= Len(columnConfigs') =>
                      /\ columnConfigs'[i].isNameDirty = columnConfigs[i].isNameDirty
                      /\ columnConfigs'[i].isTypeDirty = columnConfigs[i].isTypeDirty]_vars

C28_Witness ==
    /\ lastEvent = "handleFileChange"
    /\ Len(columnConfigs) = 1
    /\ columnConfigs[1].isNameDirty
    /\ columnConfigs[1].tableColumnName = <<"n">>
    /\ columnConfigs[1].autoColumnName = <<"n">>
    /\ columnConfigs[1].isTypeDirty
    /\ columnConfigs[1].dataType = <<"boolean">>
    /\ columnConfigs[1].autoType = <<"boolean">>

\* the columns with include = true, in their order
IncludedOf(columns) == SelectSeq(columns, LAMBDA column : column.include)

\* columns with column put in after its first p entries
InsertedAt(columns, p, column) ==
    SubSeq(columns, 1, p) \o <<column>> \o SubSeq(columns, p + 1, Len(columns))

\* C29: the outcome of createImportSchema does not depend on the excluded
\* columns: an input with the same tableName, tableComment and
\* useFirstRowAsHeader and the same ordered list of included columns, whatever
\* the names, types, comments, number and positions of its excluded columns,
\* fails with the same error or returns an equal schema. Every input, with
\* its excluded columns of any content, number and positions, has the outcome
\* of the input made of its included columns alone, and so has that input with
\* one more excluded column put in at any position.
C29_ExcludedColumnsDoNotMatter ==
    outcome # NoOutcome =>
        LET included == IncludedOf(options.columns)
            excluded == [include |-> FALSE, tableColumnName |-> <<" ", "1", "\"">>,
                         dataType |-> <<"text">>, comment |-> <<" ", "c", " ">>]
        IN  /\ outcome = createImportSchema([options EXCEPT !.columns = included])
            /\ \A p \in 0..Len(options.columns) :
                  outcome = createImportSchema(
                      [options EXCEPT !.columns = InsertedAt(options.columns, p, excluded)])

C29_Witness ==
    /\ outcome.status = "returned"
    /\ Len(options.columns) = 2
    /\ ~options.columns[1].include
    /\ options.columns[1].tableColumnName = <<" ", "1", "\"">>
    /\ options.columns[1].comment = <<" ", "c", " ">>
    /\ options.columns[2].include
    /\ Len(outcome.value.Columns) = 1
    /\ formData = NoFormData

\* a column as buildColumns makes it when nothing is carried over
InDefaultState(column) ==
    /\ column.include
    /\ ~column.isNameDirty /\ ~column.isTypeDirty
    /\ column.comment = <<>>
    /\ column.tableColumnName = column.autoColumnName
    /\ column.dataType = column.autoType

\* C30 as claimed: after the user selects a file and its rows are loaded, every
\* column of the configuration is in its default state, whether or not an
\* earlier file was cleared first.
C30_SelectedFileStartsDefault ==
    lastEvent = "handleFileChange" =>
        \A i \in 1..Len(columnConfigs) : InDefaultState(columnConfigs[i])

\* C30 as amended: after the user selects a file, every column at a position
\* that the configuration did not have before the selection is in its default
\* state; clearing the file or failing to read one empties the configuration,
\* so after either the next file selected starts with every column in its
\* default state. Positions that the earlier configuration had keep what the
\* user set there.
C30_DefaultsWhereNothingWasConfigured ==
    [][/\ lastEvent' = "handleFileChange" =>
              \A i \in 1..Len(columnConfigs') :
                  i > Len(columnConfigs) => InDefaultState(columnConfigs'[i])
       /\ lastEvent' \in {"clearFile", "readError"} => columnConfigs' = <<>>
       /\ (lastEvent \in {"mount", "clearFile", "readError"}
              /\ lastEvent' = "handleFileChange") =>
              \A i \in 1..Len(columnConfigs') : InDefaultState(columnConfigs'[i])]_vars

C30_Witness ==
    /\ lastEvent = "handleFileChange"
    /\ Len(columnConfigs) = 2
    /\ columnConfigs[1].comment = <<"c">>
    /\ columnConfigs[1].isTypeDirty /\ columnConfigs[1].dataType = <<"text">>
    /\ InDefaultState(columnConfigs[2])
    /\ columnConfigs[2].tableColumnName = <<"n">>

=============================================================================
